---- MODULE Spec2Model ----
(***************************************************************************)
(* A model of the chrome-tools adapter: the tab operations of ChromeAPI    *)
(* (chrome-api.ts), the image post-processor (image-utils.ts) and the tool *)
(* front end (index.ts).                                                   *)
(*                                                                         *)
(* The module holds several specifications over one set of variables:      *)
(*   Spec      the session life cycle of the six adapter operations        *)
(*             (try / catch / finally around the protocol calls), for      *)
(*             overlapping calls on one tab;                               *)
(*   SpecImg   processImage, the size-ceiling ladder;                      *)
(*   SpecNet   capture_network_events with two request identifiers;        *)
(*   SpecNetFilters  the same operation with one request identifier, over  *)
(*             the filters, resource types and URLs;                       *)
(*   SpecNetTime  the same operation over the range of durations;          *)
(*   SpecDom   the attribute extraction of queryDOMElements;               *)
(*   SpecQuery queryDOMElements as a whole, its per-node functions         *)
(*             interleaved;                                                *)
(*   SpecClick, SpecClickLive  clickElement, without and with fairness;    *)
(*   SpecNav   loadUrl and the per-tab console-log buffer, next to the     *)
(*             other operations on two tabs;                               *)
(*   SpecLoadLive  loadUrl alone, with fairness;                           *)
(*   SpecTools the tool handlers of the front end;                         *)
(*   SpecEp    the debugging endpoint the base URL configures, and         *)
(*             listTabs, next to a browser whose tabs change;              *)
(*   SpecSave  saveImage, for overlapping capture_screenshot calls.        *)
(* Each specification leaves the variables of the others at their initial  *)
(* values.                                                                 *)
(***************************************************************************)
EXTENDS Integers, Sequences, FiniteSets, TLC

VARIABLES
    \* ---- session life cycle (Spec) ----
    op,         \* op[c]: the adapter operation call c runs, "none" before it starts
    fullPage,   \* fullPage[c]: options.fullPage of a captureScreenshot call
    pc,         \* pc[c]: "idle", "try", "finally" or "done"
    idx,        \* idx[c]: the next step of the try block / of the finally block
    client,     \* client[c]: the call's `client` variable: "undefined", "open", "closed"
    pending,    \* pending[c]: the completion the finally block will deliver
    outcome,    \* outcome[c]: how the call ended: "none", "returned", "threw"
    err,        \* err[c]: the error the call carries
    log,        \* log[c]: the protocol commands call c issued, with their results
    override,   \* the tab's device-metrics override is in effect
    \* ---- processImage (SpecImg) ----
    imgPc, imgTried, imgResult,
    \* ---- captureNetworkEvents (SpecNet, SpecNetFilters, SpecNetTime) ----
    netPc, netDuration, netFilters, netWait, netElapsed, netClient,
    heap, requests, events, netLog, netOutcome,
    \* ---- queryDOMElements attribute extraction (SpecDom) ----
    domPc, nodeAttributes, domI, ariaAttributes, attributes, snapshot,
    \* ---- queryDOMElements, the whole operation (SpecQuery) ----
    qPc, qSelector, qPage, qClient, qNodeIds, qNodePc, qElem, qPending,
    qErr, qFailed, qOutcome,
    \* ---- clickElement (SpecClick, SpecClickLive) ----
    cPc, cPage, cClient, cNodeIds, cCenter, cClicks, cListening, cMessages,
    cHeard, cTimer, cRace, cPending, cErr, cOutcome,
    \* ---- loadUrl and the console-log buffer (SpecNav) ----
    nOp, nTab, nPc, nClient, nListening, nMessages, nLog, nOutcome,
    consoleLogs, produced,
    \* ---- the tool front end (SpecTools) ----
    tool, script, toolPc, exeReply, adapterOutcome, postOutcome, response,
    \* ---- the debugging endpoint and listTabs (SpecEp) ----
    baseUrl,      \* this.baseUrl, a sequence of characters
    targets,      \* the identifiers of the browser's tabs
    epoch,        \* how often the browser's tab set has changed
    listings,     \* the outcomes of the listTabs calls, in order
    connections,  \* the connections opened, each with the endpoint it went to
    listPc,       \* "idle" or "CDP.List"
    \* ---- saveImage (SpecSave) ----
    now,          \* Date.now(), in milliseconds
    sPc,          \* sPc[c]: "idle", "fs.mkdir", "fs.writeFile", "returned", "threw"
    sPath,        \* sPath[c]: the call's filepath
    files         \* the screenshot directory: records [path, data]

sessVars == <<op, fullPage, pc, idx, client, pending, outcome, err, log, override>>
imgVars  == <<imgPc, imgTried, imgResult>>
netVars  == <<netPc, netDuration, netFilters, netWait, netElapsed, netClient,
              heap, requests, events, netLog, netOutcome>>
domVars  == <<domPc, nodeAttributes, domI, ariaAttributes, attributes, snapshot>>
qryVars  == <<qPc, qSelector, qPage, qClient, qNodeIds, qNodePc, qElem, qPending,
              qErr, qFailed, qOutcome>>
clkVars  == <<cPc, cPage, cClient, cNodeIds, cCenter, cClicks, cListening, cMessages,
              cHeard, cTimer, cRace, cPending, cErr, cOutcome>>
navVars  == <<nOp, nTab, nPc, nClient, nListening, nMessages, nLog, nOutcome,
              consoleLogs, produced>>
toolVars == <<tool, script, toolPc, exeReply, adapterOutcome, postOutcome, response>>
epVars   == <<baseUrl, targets, epoch, listings, connections, listPc>>
saveVars == <<now, sPc, sPath, files>>
vars     == <<sessVars, imgVars, netVars, domVars, qryVars, clkVars, navVars, toolVars,
              epVars, saveVars>>

\* Each part of the program leaves the state of the other parts alone.
SessOnly == UNCHANGED <<imgVars, netVars, domVars, qryVars, clkVars, navVars, toolVars,
                       epVars, saveVars>>
ImgOnly  == UNCHANGED <<sessVars, netVars, domVars, qryVars, clkVars, navVars, toolVars,
                       epVars, saveVars>>
NetOnly  == UNCHANGED <<sessVars, imgVars, domVars, qryVars, clkVars, navVars, toolVars,
                       epVars, saveVars>>
DomOnly  == UNCHANGED <<sessVars, imgVars, netVars, qryVars, clkVars, navVars, toolVars,
                       epVars, saveVars>>
QryOnly  == UNCHANGED <<sessVars, imgVars, netVars, domVars, clkVars, navVars, toolVars,
                       epVars, saveVars>>
ClkOnly  == UNCHANGED <<sessVars, imgVars, netVars, domVars, qryVars, navVars, toolVars,
                       epVars, saveVars>>
NavOnly  == UNCHANGED <<sessVars, imgVars, netVars, domVars, qryVars, clkVars, toolVars,
                       epVars, saveVars>>
EpOnly   == UNCHANGED <<sessVars, imgVars, netVars, domVars, qryVars, clkVars, navVars,
                       toolVars, saveVars>>
SaveOnly == UNCHANGED <<sessVars, imgVars, netVars, domVars, qryVars, clkVars, navVars,
                       toolVars, epVars>>

(***************************************************************************)
(* Bounds of the model.                                                    *)
(***************************************************************************)
NumCalls == 2        \* overlapping adapter calls on the tab

Calls == 1..NumCalls

(***************************************************************************)
(* The session life cycle.  Every operation is                             *)
(*     try { client = await CDP(...); <protocol calls> }                   *)
(*     catch (error) { throw ... }                                         *)
(*     finally { if (client) { <cleanup>; await client.close(); } }        *)
(***************************************************************************)
Ops == {"executeScript", "captureScreenshot", "captureNetworkEvents",
        "loadUrl", "queryDOMElements", "clickElement"}

\* The awaited steps of an operation's try block, in program order.
TrySteps(o, fp) ==
    CASE o = "executeScript" ->
            <<"CDP", "Runtime.enable", "Runtime.evaluate">>
      [] o = "captureScreenshot" ->
            <<"CDP", "Page.enable">>
            \o (IF fp THEN <<"DOM.getDocument", "DOM.getBoxModel",
                             "Emulation.setDeviceMetricsOverride">>
                      ELSE <<>>)
            \o <<"Page.captureScreenshot">>
      [] o = "captureNetworkEvents" ->
            <<"CDP", "Network.enable", "setTimeout">>
      [] o = "loadUrl" ->
            <<"CDP", "Runtime.enable", "Page.enable", "Page.navigate",
              "Page.loadEventFired">>
      [] o = "queryDOMElements" ->
            <<"CDP", "DOM.enable", "Runtime.enable", "DOM.getDocument",
              "DOM.querySelectorAll", "Promise.all">>
      [] o = "clickElement" ->
            <<"CDP", "DOM.enable", "Runtime.enable", "DOM.getDocument",
              "DOM.querySelectorAll", "DOM.getBoxModel", "Runtime.evaluate",
              "Runtime.evaluate", "Promise.race">>

\* A mutant of CleanupSteps: the finally block closes without reverting.
CleanupStepsNoClear(o, fp) == <<"close">>

\* The awaited steps of the finally block, run only `if (client)`.
CleanupSteps(o, fp) ==
    IF o = "captureScreenshot" /\ fp
    THEN <<"Emulation.clearDeviceMetricsOverride", "close">>
    ELSE <<"close">>

\* Steps that are protocol commands and so can be rejected.  A timer and the
\* promises built in the code (setTimeout, the click race, the load event)
\* only ever resolve; client.close() resolves when the socket has closed.
CanFail(step) == step \notin {"setTimeout", "Promise.race", "Page.loadEventFired", "close"}

\* The effect of a successful command on the tab's emulation state.
OverrideAfter(step, cur) ==
    CASE step = "Emulation.setDeviceMetricsOverride"   -> TRUE
      [] step = "Emulation.clearDeviceMetricsOverride" -> FALSE
      [] OTHER -> cur

InitSess ==
    /\ op       = [c \in Calls |-> "none"]
    /\ fullPage = [c \in Calls |-> FALSE]
    /\ pc       = [c \in Calls |-> "idle"]
    /\ idx      = [c \in Calls |-> 1]
    /\ client   = [c \in Calls |-> "undefined"]
    /\ pending  = [c \in Calls |-> "none"]
    /\ outcome  = [c \in Calls |-> "none"]
    /\ err      = [c \in Calls |-> "none"]
    /\ log      = [c \in Calls |-> <<>>]
    /\ override = FALSE

CurStep(c) == TrySteps(op[c], fullPage[c])[idx[c]]
CurCleanup(c) == CleanupSteps(op[c], fullPage[c])[idx[c]]

\* The tool front end calls an adapter operation.  Calls are numbered in the
\* order of their invocation.
Invoke(c) ==
    /\ pc[c] = "idle"
    /\ \A b \in Calls : b < c => pc[b] # "idle"
    /\ \E o \in Ops, fp \in BOOLEAN :
          /\ (fp => o = "captureScreenshot")
          /\ op' = [op EXCEPT ![c] = o]
          /\ fullPage' = [fullPage EXCEPT ![c] = fp]
    /\ pc' = [pc EXCEPT ![c] = "try"]
    /\ UNCHANGED <<idx, client, pending, outcome, err, log, override>>
    /\ SessOnly

\* client = await CDP({target, port}) resolves: the session is open.
ConnectOk(c) ==
    /\ pc[c] = "try" /\ CurStep(c) = "CDP"
    /\ client' = [client EXCEPT ![c] = "open"]
    /\ idx' = [idx EXCEPT ![c] = @ + 1]
    /\ log' = [log EXCEPT ![c] = Append(@, <<"CDP", "ok">>)]
    /\ UNCHANGED <<op, fullPage, pc, pending, outcome, err, override>>
    /\ SessOnly

\* await CDP(...) rejects: client stays undefined, catch rethrows.
ConnectFail(c) ==
    /\ pc[c] = "try" /\ CurStep(c) = "CDP"
    /\ pc' = [pc EXCEPT ![c] = "finally"]
    /\ idx' = [idx EXCEPT ![c] = 1]
    /\ pending' = [pending EXCEPT ![c] = "throw"]
    /\ err' = [err EXCEPT ![c] = "CDP"]
    /\ log' = [log EXCEPT ![c] = Append(@, <<"CDP", "fail">>)]
    /\ UNCHANGED <<op, fullPage, client, outcome, override>>
    /\ SessOnly

\* An awaited step of the try block resolves; after the last one the
\* operation's return statement runs and control passes to finally.
StepOk(c) ==
    /\ pc[c] = "try" /\ CurStep(c) # "CDP"
    /\ override' = OverrideAfter(CurStep(c), override)
    /\ log' = [log EXCEPT ![c] = Append(@, <<CurStep(c), "ok">>)]
    /\ IF idx[c] = Len(TrySteps(op[c], fullPage[c]))
       THEN /\ pc' = [pc EXCEPT ![c] = "finally"]
            /\ idx' = [idx EXCEPT ![c] = 1]
            /\ pending' = [pending EXCEPT ![c] = "return"]
       ELSE /\ idx' = [idx EXCEPT ![c] = @ + 1]
            /\ UNCHANGED <<pc, pending>>
    /\ UNCHANGED <<op, fullPage, client, outcome, err>>
    /\ SessOnly

\* A mutant of AfterCatch: the catch block starts the try block again.
AfterCatchRetry == "try"

\* Where control goes from the catch block: `throw error` leaves the try
\* statement, so the finally block runs next; no catch block loops back.
AfterCatch == "finally"

\* A protocol command of the try block rejects: catch logs and rethrows.
StepFail(c) ==
    /\ pc[c] = "try" /\ CurStep(c) # "CDP" /\ CanFail(CurStep(c))
    /\ pc' = [pc EXCEPT ![c] = AfterCatch]
    /\ idx' = [idx EXCEPT ![c] = 1]
    /\ pending' = [pending EXCEPT ![c] = "throw"]
    /\ err' = [err EXCEPT ![c] = CurStep(c)]
    /\ log' = [log EXCEPT ![c] = Append(@, <<CurStep(c), "fail">>)]
    /\ UNCHANGED <<op, fullPage, client, outcome, override>>
    /\ SessOnly

\* finally { if (client) ... }: no client, nothing to clean up.
FinallyNoClient(c) ==
    /\ pc[c] = "finally" /\ client[c] = "undefined"
    /\ pc' = [pc EXCEPT ![c] = "done"]
    /\ outcome' = [outcome EXCEPT ![c] = IF pending[c] = "return" THEN "returned" ELSE "threw"]
    /\ UNCHANGED <<op, fullPage, idx, client, pending, err, log, override>>
    /\ SessOnly

\* An awaited step of the finally block resolves; client.close() is the last.
CleanupOk(c) ==
    /\ pc[c] = "finally" /\ client[c] # "undefined"
    /\ override' = OverrideAfter(CurCleanup(c), override)
    /\ log' = [log EXCEPT ![c] = Append(@, <<CurCleanup(c), "ok">>)]
    /\ client' = [client EXCEPT ![c] = IF CurCleanup(c) = "close" THEN "closed" ELSE @]
    /\ IF idx[c] = Len(CleanupSteps(op[c], fullPage[c]))
       THEN /\ pc' = [pc EXCEPT ![c] = "done"]
            /\ outcome' = [outcome EXCEPT ![c] =
                              IF pending[c] = "return" THEN "returned" ELSE "threw"]
            /\ UNCHANGED idx
       ELSE /\ idx' = [idx EXCEPT ![c] = @ + 1]
            /\ UNCHANGED <<pc, outcome>>
    /\ UNCHANGED <<op, fullPage, pending, err>>
    /\ SessOnly

\* A protocol command of the finally block rejects: the rejection leaves the
\* finally block at once and replaces the pending completion.
CleanupFail(c) ==
    /\ pc[c] = "finally" /\ client[c] # "undefined" /\ CanFail(CurCleanup(c))
    /\ pc' = [pc EXCEPT ![c] = "done"]
    /\ outcome' = [outcome EXCEPT ![c] = "threw"]
    /\ err' = [err EXCEPT ![c] = CurCleanup(c)]
    /\ log' = [log EXCEPT ![c] = Append(@, <<CurCleanup(c), "fail">>)]
    /\ UNCHANGED <<op, fullPage, idx, client, pending, override>>
    /\ SessOnly

NextSess ==
    \E c \in Calls :
        \/ Invoke(c)
        \/ ConnectOk(c)
        \/ ConnectFail(c)
        \/ StepOk(c)
        \/ StepFail(c)
        \/ FinallyNoClient(c)
        \/ CleanupOk(c)
        \/ CleanupFail(c)

(***************************************************************************)
(* processImage: the size-ceiling ladder of image-utils.ts.  The codec is  *)
(* external: at every step it either fails or yields a buffer of some      *)
(* length, and the model draws both from the sets below.                   *)
(***************************************************************************)
Ceiling == 1024 * 1024

\* Buffer lengths the codec may produce: below, at and above the ceiling.
SampleSizes == {1, 900 * 1024, Ceiling - 1, Ceiling, Ceiling + 1, 2 * Ceiling}

Ladder == <<"webp80", "webp60", "png", "pngSmall">>

\* A mutant of Fits: the comparison is off by one byte.
FitsOffByOne(size) == size <= Ceiling + 1

\* buffer.length <= 1024 * 1024
Fits(size) == size <= Ceiling

\* A mutant of MimeOf: every payload is tagged as WebP.
MimeAlwaysWebp(step) == "data:image/webp;base64,"

\* The prefix each step's return statement embeds in `data`.
MimeOf(step) ==
    IF step \in {"webp80", "webp60"} THEN "data:image/webp;base64,"
                                     ELSE "data:image/png;base64,"

TooLarge == "Image is too large even after compression"
CodecError == "codec error"

\* return { data: `${prefix}${buffer.toString('base64')}`, format: 'png', size: buffer.length }
Processed(step, size) ==
    [kind |-> "image", prefix |-> MimeOf(step), format |-> "png", size |-> size, step |-> step]

\* The outer catch: throw new Error(`Failed to process image: ${error.message}`)
Failed(message) ==
    [kind |-> "error", message |-> <<"Failed to process image: ", message>>]

NoResult == [kind |-> "none"]

IdleImg == imgPc = "idle" /\ imgTried = <<>> /\ imgResult = NoResult

InitImg == imgPc = "start" /\ imgTried = <<>> /\ imgResult = NoResult

\* sharp(buffer).resize(900, 600, ...) builds the pipeline.
ImgConstructOk ==
    /\ imgPc = "start"
    /\ imgPc' = "webp80"
    /\ UNCHANGED <<imgTried, imgResult>>
    /\ ImgOnly

\* sharp(buffer) throws (an empty buffer): the outer catch wraps the error.
ImgConstructFail ==
    /\ imgPc = "start"
    /\ imgPc' = "done"
    /\ imgResult' = Failed(CodecError)
    /\ UNCHANGED imgTried
    /\ ImgOnly

\* image.webp({quality: 80, ...}).toBuffer() resolves with `size` bytes.
Webp80Ok(size) ==
    /\ imgPc = "webp80"
    /\ imgTried' = Append(imgTried, [step |-> "webp80", size |-> size])
    /\ IF Fits(size)
       THEN imgPc' = "done" /\ imgResult' = Processed("webp80", size)
       ELSE imgPc' = "webp60" /\ UNCHANGED imgResult
    /\ ImgOnly

\* The first WebP encode throws: the inner catch logs and falls through to PNG.
Webp80Fail ==
    /\ imgPc = "webp80"
    /\ imgTried' = Append(imgTried, [step |-> "webp80", size |-> -1])
    /\ imgPc' = "png"
    /\ UNCHANGED imgResult
    /\ ImgOnly

\* image.webp({quality: 60, nearLossless: true, ...}).toBuffer() resolves.
Webp60Ok(size) ==
    /\ imgPc = "webp60"
    /\ imgTried' = Append(imgTried, [step |-> "webp60", size |-> size])
    /\ IF Fits(size)
       THEN imgPc' = "done" /\ imgResult' = Processed("webp60", size)
       ELSE imgPc' = "png" /\ UNCHANGED imgResult
    /\ ImgOnly

\* The second WebP encode throws: same inner catch.
Webp60Fail ==
    /\ imgPc = "webp60"
    /\ imgTried' = Append(imgTried, [step |-> "webp60", size |-> -1])
    /\ imgPc' = "png"
    /\ UNCHANGED imgResult
    /\ ImgOnly

\* image.png({compressionLevel: 9, palette: true}).toBuffer() resolves.
PngOk(size) ==
    /\ imgPc = "png"
    /\ imgTried' = Append(imgTried, [step |-> "png", size |-> size])
    /\ IF Fits(size)
       THEN imgPc' = "done" /\ imgResult' = Processed("png", size)
       ELSE imgPc' = "pngSmall" /\ UNCHANGED imgResult
    /\ ImgOnly

\* The PNG encode throws: only the outer catch is left.
PngFail ==
    /\ imgPc = "png"
    /\ imgTried' = Append(imgTried, [step |-> "png", size |-> -1])
    /\ imgPc' = "done"
    /\ imgResult' = Failed(CodecError)
    /\ ImgOnly

\* The downscaled, 128-colour PNG encode resolves.
PngSmallOk(size) ==
    /\ imgPc = "pngSmall"
    /\ imgTried' = Append(imgTried, [step |-> "pngSmall", size |-> size])
    /\ imgPc' = "done"
    /\ imgResult' = IF Fits(size) THEN Processed("pngSmall", size) ELSE Failed(TooLarge)
    /\ ImgOnly

\* The downscaled encode throws.
PngSmallFail ==
    /\ imgPc = "pngSmall"
    /\ imgTried' = Append(imgTried, [step |-> "pngSmall", size |-> -1])
    /\ imgPc' = "done"
    /\ imgResult' = Failed(CodecError)
    /\ ImgOnly

NextImg ==
    \/ ImgConstructOk
    \/ ImgConstructFail
    \/ \E size \in SampleSizes : Webp80Ok(size)
    \/ Webp80Fail
    \/ \E size \in SampleSizes : Webp60Ok(size)
    \/ Webp60Fail
    \/ \E size \in SampleSizes : PngOk(size)
    \/ PngFail
    \/ \E size \in SampleSizes : PngSmallOk(size)
    \/ PngSmallFail

(***************************************************************************)
(* capture_network_events: the tool's schema (index.ts) and                *)
(* ChromeAPI.captureNetworkEvents.  Strings the code inspects (resource    *)
(* types, URLs, the URL pattern) are tuples of characters; an absent       *)
(* string is the empty tuple, which the code treats like undefined.        *)
(* Records live on a heap: the map `requests` and the list `events` hold   *)
(* references, as the JavaScript objects do.                               *)
(***************************************************************************)
MaxRequests == 2      \* requestWillBeSent notifications delivered in one call (SpecNet)
MaxResponses == 2     \* responseReceived notifications delivered in one call (SpecNet)
MaxWideNotifs == 1    \* notifications of each kind delivered in one call (SpecNetFilters)
MaxTimedNotifs == 1   \* notifications of each kind delivered in one call (SpecNetTime)

SchemaMin == 1            \* z.number().min(1)
SchemaMax == 60           \* .max(60)
DefaultDuration == 10     \* options.duration || 10

NoDuration == [given |-> FALSE]
Duration(n) == [given |-> TRUE, value |-> n]

NoFilters == [given |-> FALSE]
NoTypes == [given |-> FALSE]
Types(S) == [given |-> TRUE, set |-> S]
Filters(t, p) == [given |-> TRUE, types |-> t, urlPattern |-> p]

RequestIds == {1, 2}
Xhr == <<"X", "H", "R">>
Fetch == <<"F", "e", "t", "c", "h">>
UrlA == <<"/", "a">>
UrlB == <<"/", "b">>
PatA == <<"a">>

\* What the browser can send in SpecNet: two request identifiers.
Notifs ==
    [kind : {"requestWillBeSent"}, requestId : RequestIds, type : {Xhr, Fetch},
     url : {UrlA}]
    \cup [kind : {"responseReceived"}, requestId : RequestIds]

\* What the browser can send in SpecNetFilters: one request identifier, more
\* resource types (a missing type is the empty tuple) and two URLs.
WideNotifs ==
    [kind : {"requestWillBeSent"}, requestId : {1},
     type : {Xhr, <<"x", "h", "r">>, Fetch, <<"D", "o", "c">>, <<>>}, url : {UrlA, UrlB}]
    \cup [kind : {"responseReceived"}, requestId : {1}]

\* What the browser can send in SpecNetTime: one request identifier and URL.
TimedNotifs ==
    [kind : {"requestWillBeSent"}, requestId : {1}, type : {Xhr, Fetch}, url : {UrlA}]
    \cup [kind : {"responseReceived"}, requestId : {1}]

\* What the tool caller can supply in SpecNet and SpecNetFilters.
DurationInputs == {Duration(SchemaMin)}
FilterInputs ==
    {NoFilters,
     Filters(Types({"fetch"}), <<>>),
     Filters(Types({"xhr"}), PatA)}

\* What the tool caller can supply in SpecNetFilters.
WideFilterInputs ==
    {NoFilters,
     Filters(Types({"fetch"}), <<>>),
     Filters(Types({"xhr"}), PatA),
     Filters(NoTypes, PatA),
     Filters(Types({}), <<>>)}

\* What the tool caller can supply in SpecNetTime.
TimedDurationInputs ==
    {NoDuration, Duration(SchemaMin - 1), Duration(SchemaMin), Duration(SchemaMin + 1),
     Duration(SchemaMax), Duration(SchemaMax + 1)}
TimedFilterInputs == {NoFilters}

\* A mutant of ValidDuration: the schema has no upper limit.
ValidDurationNoMax(d) == ~d.given \/ d.value >= SchemaMin

\* duration: z.number().min(1).max(60).optional()
ValidDuration(d) == ~d.given \/ (d.value >= SchemaMin /\ d.value <= SchemaMax)

\* const duration = options.duration || 10
EffectiveDuration(d) == IF ~d.given \/ d.value = 0 THEN DefaultDuration ELSE d.value

LowerOf(ch) ==
    CASE ch = "X" -> "x" [] ch = "H" -> "h" [] ch = "R" -> "r"
      [] ch = "F" -> "f" [] ch = "D" -> "d" [] OTHER -> ch

\* String.prototype.toLowerCase
ToLowerCase(str) == [i \in 1..Len(str) |-> LowerOf(str[i])]

\* A mutant of Classify: the comparison is made without toLowerCase().
ClassifyCaseSensitive(rawType) == IF rawType = <<"x", "h", "r">> THEN "xhr" ELSE "fetch"

\* A mutant of Classify: only a type reported as Fetch is a fetch.
ClassifyFetchOnly(rawType) ==
    IF ToLowerCase(rawType) = <<"f", "e", "t", "c", "h">> THEN "fetch" ELSE "xhr"

\* params.type?.toLowerCase() === 'xhr' ? 'xhr' : 'fetch'
Classify(rawType) == IF ToLowerCase(rawType) = <<"x", "h", "r">> THEN "xhr" ELSE "fetch"

\* url.match(pattern) for a pattern without metacharacters: a substring search.
Matches(url, pattern) ==
    \E i \in 1..(Len(url) - Len(pattern) + 1) : SubSeq(url, i, i + Len(pattern) - 1) = pattern

\* A mutant of PassesFilters: the type filter is not applied.
PassesFiltersNoTypes(request, filters) ==
    ~filters.given \/ filters.urlPattern = <<>> \/ Matches(request.url, filters.urlPattern)

\* The filter block of requestHandler: TRUE when the handler does not return early.
PassesFilters(request, filters) ==
    \/ ~filters.given
    \/ /\ ~(filters.types.given /\ request.type \notin filters.types.set)
       /\ ~(filters.urlPattern # <<>> /\ ~Matches(request.url, filters.urlPattern))

\* A mutant of Lookup: the response is matched to the latest record, whatever its identifier.
LookupLatest(id) == Len(heap)

\* requests.get(params.requestId): a heap reference, 0 for undefined.
Lookup(id) == IF id \in DOMAIN requests THEN requests[id] ELSE 0

\* A mutant of TimerDue: the wait also ends once no request is left pending.
TimerDueOrDrained ==
    \/ netElapsed >= netWait
    \/ (heap # <<>> /\ \A o \in 1..Len(heap) : heap[o].responseTime # 0)

\* The setTimeout(resolve, duration * 1000) of the wait is due.
TimerDue == netElapsed >= netWait

EmptyMap == [k \in {} |-> 0]

IdleNet ==
    /\ netPc = "idle" /\ netDuration = NoDuration /\ netFilters = NoFilters
    /\ netWait = 0 /\ netElapsed = 0 /\ netClient = "undefined"
    /\ heap = <<>> /\ requests = EmptyMap /\ events = <<>> /\ netLog = <<>>
    /\ netOutcome = [kind |-> "none"]

\* The capture_network_events tool is invoked: the schema is checked first,
\* and the handler calls the adapter with the parsed parameters.
NetInvoke(d, f) ==
    /\ netPc = "idle"
    /\ netDuration' = d
    /\ netFilters' = f
    /\ netPc' = IF ValidDuration(d) THEN "connect" ELSE "rejected"
    /\ UNCHANGED <<netWait, netElapsed, netClient, heap, requests, events, netLog, netOutcome>>
    /\ NetOnly

\* client = await CDP(...) resolves.
NetConnectOk ==
    /\ netPc = "connect"
    /\ netClient' = "open"
    /\ netPc' = "enable"
    /\ UNCHANGED <<netDuration, netFilters, netWait, netElapsed, heap, requests, events,
                   netLog, netOutcome>>
    /\ NetOnly

\* client = await CDP(...) rejects: no client, the error is rethrown.
NetConnectFail ==
    /\ netPc = "connect"
    /\ netPc' = "threw"
    /\ netOutcome' = [kind |-> "threw"]
    /\ UNCHANGED <<netDuration, netFilters, netWait, netElapsed, netClient, heap, requests,
                   events, netLog>>
    /\ NetOnly

\* await client.Network.enable() resolves; the list and the map are created,
\* both handlers are registered and the timer is started, in one turn.
NetEnableOk ==
    /\ netPc = "enable"
    /\ events' = <<>>
    /\ requests' = EmptyMap
    /\ netWait' = EffectiveDuration(netDuration)
    /\ netElapsed' = 0
    /\ netPc' = "waiting"
    /\ UNCHANGED <<netDuration, netFilters, netClient, heap, netLog, netOutcome>>
    /\ NetOnly

\* await client.Network.enable() rejects: catch rethrows, finally closes.
NetEnableFail ==
    /\ netPc = "enable"
    /\ netPc' = "closingAfterError"
    /\ UNCHANGED <<netDuration, netFilters, netWait, netElapsed, netClient, heap, requests,
                   events, netLog, netOutcome>>
    /\ NetOnly

\* The handlers are registered and the socket still delivers messages.
Listening == netPc \in {"waiting", "closing"}

Phase == IF netPc = "waiting" THEN "window" ELSE "closing"

\* The notifications of one kind delivered so far.
Delivered(kind) == Cardinality({i \in 1..Len(netLog) : netLog[i].msg.kind = kind})

\* requestHandler(params)
RequestWillBeSent(m, limit) ==
    /\ Listening /\ Delivered("requestWillBeSent") < limit
    /\ m.kind = "requestWillBeSent"
    /\ LET request == [type |-> Classify(m.type), url |-> m.url,
                       requestTime |-> Len(netLog) + 1, status |-> 0, responseTime |-> 0]
           ref == Len(heap) + 1
       IN IF PassesFilters(request, netFilters)
          THEN /\ heap' = Append(heap, request)
               /\ requests' = [k \in DOMAIN requests \cup {m.requestId} |->
                                  IF k = m.requestId THEN ref ELSE requests[k]]
               /\ netLog' = Append(netLog, [msg |-> m, phase |-> Phase, ref |-> ref])
          ELSE /\ UNCHANGED <<heap, requests>>
               /\ netLog' = Append(netLog, [msg |-> m, phase |-> Phase, ref |-> 0])
    /\ UNCHANGED <<netPc, netDuration, netFilters, netWait, netElapsed, netClient, events,
                   netOutcome>>
    /\ NetOnly

\* responseHandler(params)
ResponseReceived(m, limit) ==
    /\ Listening /\ Delivered("responseReceived") < limit
    /\ m.kind = "responseReceived"
    /\ LET ref == Lookup(m.requestId)
       IN /\ IF ref # 0
             THEN /\ heap' = [heap EXCEPT ![ref].status = 200,
                                          ![ref].responseTime = Len(netLog) + 1]
                  /\ events' = Append(events, ref)
             ELSE UNCHANGED <<heap, events>>
          /\ netLog' = Append(netLog, [msg |-> m, phase |-> Phase, ref |-> ref])
    /\ UNCHANGED <<netPc, netDuration, netFilters, netWait, netElapsed, netClient, requests,
                   netOutcome>>
    /\ NetOnly

\* One second passes while the call waits on its timer.
Tick ==
    /\ netPc = "waiting" /\ ~TimerDue
    /\ netElapsed' = netElapsed + 1
    /\ UNCHANGED <<netPc, netDuration, netFilters, netWait, netClient, heap, requests,
                   events, netLog, netOutcome>>
    /\ NetOnly

\* The timer resolves the wait: `return events`, then finally awaits close.
TimerFires ==
    /\ netPc = "waiting" /\ TimerDue
    /\ netPc' = "closing"
    /\ UNCHANGED <<netDuration, netFilters, netWait, netElapsed, netClient, heap, requests,
                   events, netLog, netOutcome>>
    /\ NetOnly

\* await client.close() resolves: the caller receives the list `events` itself.
NetCloseAfterWait ==
    /\ netPc = "closing"
    /\ netClient' = "closed"
    /\ netPc' = "returned"
    /\ netOutcome' = [kind |-> "returned", value |-> events]
    /\ UNCHANGED <<netDuration, netFilters, netWait, netElapsed, heap, requests, events,
                   netLog>>
    /\ NetOnly

\* await client.close() resolves after a failed Network.enable.
NetCloseAfterError ==
    /\ netPc = "closingAfterError"
    /\ netClient' = "closed"
    /\ netPc' = "threw"
    /\ netOutcome' = [kind |-> "threw"]
    /\ UNCHANGED <<netDuration, netFilters, netWait, netElapsed, heap, requests, events,
                   netLog>>
    /\ NetOnly

NetControl ==
    \/ NetConnectOk
    \/ NetConnectFail
    \/ NetEnableOk
    \/ NetEnableFail
    \/ Tick
    \/ TimerFires
    \/ NetCloseAfterWait
    \/ NetCloseAfterError

NextNet ==
    \/ \E d \in DurationInputs, f \in FilterInputs : NetInvoke(d, f)
    \/ NetControl
    \/ \E m \in Notifs : RequestWillBeSent(m, MaxRequests)
    \/ \E m \in Notifs : ResponseReceived(m, MaxResponses)

NextNetFilters ==
    \/ \E d \in DurationInputs, f \in WideFilterInputs : NetInvoke(d, f)
    \/ NetControl
    \/ \E m \in WideNotifs : RequestWillBeSent(m, MaxWideNotifs)
    \/ \E m \in WideNotifs : ResponseReceived(m, MaxWideNotifs)

NextNetTime ==
    \/ \E d \in TimedDurationInputs, f \in TimedFilterInputs : NetInvoke(d, f)
    \/ NetControl
    \/ \E m \in TimedNotifs : RequestWillBeSent(m, MaxTimedNotifs)
    \/ \E m \in TimedNotifs : ResponseReceived(m, MaxTimedNotifs)

(***************************************************************************)
(* queryDOMElements: the two loops that turn a node's flat attribute list  *)
(* [name1, value1, name2, value2, ...] into `ariaAttributes` and           *)
(* `attributes`.  Names and values are tuples of characters; an object is  *)
(* a function from its keys.                                               *)
(***************************************************************************)
MaxAttrs == 3     \* name/value pairs of a node

AriaPrefix == <<"a", "r", "i", "a", "-">>
AttrNames == {<<"a", "r", "i", "a", "-", "x">>, AriaPrefix, <<"a", "r", "i", "a">>,
              <<"i", "d">>}
AttrValues == {<<"v">>, <<"a", "r", "i", "a", "-", "x">>}
Undefined == <<"undefined">>

Flatten(pairs) ==
    [i \in 1..(2 * Len(pairs)) |->
        IF i % 2 = 1 THEN pairs[(i + 1) \div 2][1] ELSE pairs[i \div 2][2]]

\* The attribute lists DOM.describeNode can report: name/value pairs, flattened.
FlatLists == {Flatten(pairs) : pairs \in UNION {[1..k -> AttrNames \X AttrValues] : k \in 0..MaxAttrs}}

NoAttributes == [given |-> FALSE]
AttributeList(list) == [given |-> TRUE, list |-> list]

\* A mutant of StartsWith: only the first four characters are compared ('aria').
StartsWithFour(str, prefix) ==
    Len(str) >= 4 /\ SubSeq(str, 1, 4) = SubSeq(prefix, 1, 4)

\* String.prototype.startsWith
StartsWith(str, prefix) ==
    Len(str) >= Len(prefix) /\ SubSeq(str, 1, Len(prefix)) = prefix

\* array[i] for a 0-based index i: undefined past the end.
At(list, i) == IF i + 1 <= Len(list) THEN list[i + 1] ELSE Undefined

\* object[name] = value
Put(object, name, value) ==
    [k \in DOMAIN object \cup {name} |-> IF k = name THEN value ELSE object[k]]

EmptyObject == [k \in {} |-> Undefined]

IdleDom ==
    /\ domPc = "idle" /\ nodeAttributes = NoAttributes /\ domI = 0
    /\ ariaAttributes = EmptyObject /\ attributes = EmptyObject
    /\ snapshot = [kind |-> "none"]

\* The state after `const ariaAttributes = {}` for a described node.
InitDom ==
    /\ domPc = "aria"
    /\ nodeAttributes \in {NoAttributes} \cup {AttributeList(l) : l \in FlatLists}
    /\ domI = 0
    /\ ariaAttributes = EmptyObject /\ attributes = EmptyObject
    /\ snapshot = [kind |-> "none"]

LoopRuns == nodeAttributes.given /\ domI < Len(nodeAttributes.list)

\* One iteration of the first loop (i += 2).
AriaLoopStep ==
    /\ domPc = "aria" /\ LoopRuns
    /\ LET name == At(nodeAttributes.list, domI)
       IN ariaAttributes' = IF StartsWith(name, AriaPrefix)
                            THEN Put(ariaAttributes, name, At(nodeAttributes.list, domI + 1))
                            ELSE ariaAttributes
    /\ domI' = domI + 2
    /\ UNCHANGED <<domPc, nodeAttributes, attributes, snapshot>>
    /\ DomOnly

\* The first loop ends (or node.attributes is undefined): const attributes = {}.
AriaLoopEnd ==
    /\ domPc = "aria" /\ ~LoopRuns
    /\ domPc' = "attributes"
    /\ domI' = 0
    /\ UNCHANGED <<nodeAttributes, ariaAttributes, attributes, snapshot>>
    /\ DomOnly

\* One iteration of the second loop (i += 2).
AttributesLoopStep ==
    /\ domPc = "attributes" /\ LoopRuns
    /\ attributes' = Put(attributes, At(nodeAttributes.list, domI),
                         At(nodeAttributes.list, domI + 1))
    /\ domI' = domI + 2
    /\ UNCHANGED <<domPc, nodeAttributes, ariaAttributes, snapshot>>
    /\ DomOnly

\* The second loop ends: the snapshot is returned.
AttributesLoopEnd ==
    /\ domPc = "attributes" /\ ~LoopRuns
    /\ domPc' = "done"
    /\ snapshot' = [kind |-> "snapshot", attributes |-> attributes,
                    ariaAttributes |-> ariaAttributes]
    /\ UNCHANGED <<nodeAttributes, domI, ariaAttributes, attributes>>
    /\ DomOnly

NextDom ==
    \/ AriaLoopStep
    \/ AriaLoopEnd
    \/ AttributesLoopStep
    \/ AttributesLoopEnd

(***************************************************************************)
(* queryDOMElements, the whole operation (chrome-api.ts).  The page is the *)
(* list of elements the selector matches, in document order; every         *)
(* protocol command may be rejected.  The per-node functions handed to     *)
(* Promise.all run interleaved.                                            *)
(***************************************************************************)
MaxNodes == 2     \* elements of the page the selector matches

Plain == "div"
Quoted == "[a='b']"
Contains == ":contains('x')"
Selectors == {Plain, Quoted, Contains}

\* DOM.querySelectorAll rejects a selector that is not valid CSS.
ValidCss(selector) == selector # Contains

\* The selector is pasted between single quotes into the in-page expression.
HasQuote(selector) == selector \in {Quoted, Contains}

Elements == [visible : BOOLEAN, box : BOOLEAN]
Pages == UNION {[1..k -> Elements] : k \in 0..MaxNodes}

QueryHint == ". Note: :contains() is not a valid CSS selector. Use a valid CSS selector like tag names, classes, or IDs."

\* A mutant of QueryError: the underlying message is passed on unchanged.
QueryErrorVerbatim(selector, message) == <<message>>

\* throw new Error(`Failed to query DOM elements with selector "${selector}": ${errorMessage}. Note: ...`)
QueryError(selector, message) ==
    <<"Failed to query DOM elements with selector \"", selector, "\": ", message, QueryHint>>

\* The in-page expression: document.querySelector(selector) is the FIRST
\* element the selector matches, whichever node the snapshot is built for;
\* with a quote in the selector the expression does not parse and the reply
\* carries no value.
VisibilityOf(page, selector, nodeId) ==
    IF HasQuote(selector) THEN "undefined"
    ELSE IF Len(page) = 0 THEN "false"
    ELSE IF page[1].visible THEN "true" ELSE "false"

NoElem == [boundingBox |-> "unset", isVisible |-> "unset"]
NoOutcome == [kind |-> "none"]

IdleQry ==
    /\ qPc = "idle" /\ qSelector = "" /\ qPage = <<>> /\ qClient = "undefined"
    /\ qNodeIds = <<>> /\ qNodePc = <<>> /\ qElem = <<>> /\ qPending = "none"
    /\ qErr = <<>> /\ qFailed = {} /\ qOutcome = NoOutcome

QrySteps == <<"CDP", "DOM.enable", "Runtime.enable", "DOM.getDocument",
              "DOM.querySelectorAll", "Promise.all">>

QryStepAfter(step) == QrySteps[(CHOOSE i \in 1..Len(QrySteps) : QrySteps[i] = step) + 1]

\* catch (error) { throw new Error(...) }, then finally.
QryCatch(step, node) ==
    /\ qPc' = "finally"
    /\ qPending' = "throw"
    /\ qErr' = QueryError(qSelector, step)
    /\ qFailed' = qFailed \cup {<<step, node>>}

QryInvoke(selector, page) ==
    /\ qPc = "idle"
    /\ qPc' = "CDP"
    /\ qSelector' = selector
    /\ qPage' = page
    /\ UNCHANGED <<qClient, qNodeIds, qNodePc, qElem, qPending, qErr, qFailed, qOutcome>>
    /\ QryOnly

QryConnectOk ==
    /\ qPc = "CDP"
    /\ qClient' = "open"
    /\ qPc' = QryStepAfter("CDP")
    /\ UNCHANGED <<qSelector, qPage, qNodeIds, qNodePc, qElem, qPending, qErr, qFailed, qOutcome>>
    /\ QryOnly

QryConnectFail ==
    /\ qPc = "CDP"
    /\ QryCatch("CDP", 0)
    /\ UNCHANGED <<qSelector, qPage, qClient, qNodeIds, qNodePc, qElem, qOutcome>>
    /\ QryOnly

\* DOM.enable, Runtime.enable and DOM.getDocument resolve.
QryStepOk ==
    /\ qPc \in {"DOM.enable", "Runtime.enable", "DOM.getDocument"}
    /\ qPc' = QryStepAfter(qPc)
    /\ UNCHANGED <<qSelector, qPage, qClient, qNodeIds, qNodePc, qElem, qPending, qErr,
                   qFailed, qOutcome>>
    /\ QryOnly

\* A command before Promise.all is rejected; an invalid selector always is.
QryStepFail ==
    /\ qPc \in {"DOM.enable", "Runtime.enable", "DOM.getDocument", "DOM.querySelectorAll"}
    /\ QryCatch(qPc, 0)
    /\ UNCHANGED <<qSelector, qPage, qClient, qNodeIds, qNodePc, qElem, qOutcome>>
    /\ QryOnly

\* DOM.querySelectorAll resolves with the node ids, in document order; with
\* no match Promise.all([]) resolves at once and the empty list is returned.
QrySelectOk ==
    /\ qPc = "DOM.querySelectorAll" /\ ValidCss(qSelector)
    /\ qNodeIds' = [i \in 1..Len(qPage) |-> i]
    /\ qNodePc' = [i \in 1..Len(qPage) |-> "DOM.describeNode"]
    /\ qElem' = [i \in 1..Len(qPage) |-> NoElem]
    /\ IF Len(qPage) = 0
       THEN qPc' = "finally" /\ qPending' = "return"
       ELSE qPc' = "Promise.all" /\ UNCHANGED qPending
    /\ UNCHANGED <<qSelector, qPage, qClient, qErr, qFailed, qOutcome>>
    /\ QryOnly

\* A per-node function is at `step` with its command on the open session.
NodeAt(i, step) ==
    /\ i \in 1..Len(qNodeIds)
    /\ qNodePc[i] = step
    /\ qClient = "open"

\* The rejection of a per-node function rejects Promise.all, once.
NodeRejects(i, step) ==
    /\ qNodePc' = [qNodePc EXCEPT ![i] = "rejected"]
    /\ IF qPc = "Promise.all"
       THEN QryCatch(step, i)
       ELSE /\ qFailed' = qFailed \cup {<<step, i>>}
            /\ UNCHANGED <<qPc, qPending, qErr>>

DescribeNodeOk(i) ==
    /\ NodeAt(i, "DOM.describeNode")
    /\ qNodePc' = [qNodePc EXCEPT ![i] = "DOM.getBoxModel"]
    /\ UNCHANGED <<qPc, qSelector, qPage, qClient, qNodeIds, qElem, qPending, qErr,
                   qFailed, qOutcome>>
    /\ QryOnly

DescribeNodeFail(i) ==
    /\ NodeAt(i, "DOM.describeNode")
    /\ NodeRejects(i, "DOM.describeNode")
    /\ UNCHANGED <<qSelector, qPage, qClient, qNodeIds, qElem, qOutcome>>
    /\ QryOnly

\* DOM.getBoxModel resolves for an element that has a box.
BoxModelOk(i) ==
    /\ NodeAt(i, "DOM.getBoxModel") /\ qPage[i].box
    /\ qNodePc' = [qNodePc EXCEPT ![i] = "Runtime.evaluate"]
    /\ qElem' = [qElem EXCEPT ![i].boundingBox = "box"]
    /\ UNCHANGED <<qPc, qSelector, qPage, qClient, qNodeIds, qPending, qErr, qFailed,
                   qOutcome>>
    /\ QryOnly

\* .catch(() => null): a rejected DOM.getBoxModel leaves boxModel null.
BoxModelFail(i) ==
    /\ NodeAt(i, "DOM.getBoxModel")
    /\ qNodePc' = [qNodePc EXCEPT ![i] = "Runtime.evaluate"]
    /\ qElem' = [qElem EXCEPT ![i].boundingBox = "null"]
    /\ qFailed' = qFailed \cup {<<"DOM.getBoxModel", i>>}
    /\ UNCHANGED <<qPc, qSelector, qPage, qClient, qNodeIds, qPending, qErr, qOutcome>>
    /\ QryOnly

\* Runtime.evaluate replies; the snapshot of node i is built.  When it was
\* the last one, Promise.all resolves and `elements` is returned.
EvaluateOk(i) ==
    /\ NodeAt(i, "Runtime.evaluate")
    /\ qNodePc' = [qNodePc EXCEPT ![i] = "done"]
    /\ qElem' = [qElem EXCEPT ![i].isVisible = VisibilityOf(qPage, qSelector, qNodeIds[i])]
    /\ IF qPc = "Promise.all" /\ \A j \in 1..Len(qNodeIds) : qNodePc'[j] = "done"
       THEN qPc' = "finally" /\ qPending' = "return"
       ELSE UNCHANGED <<qPc, qPending>>
    /\ UNCHANGED <<qSelector, qPage, qClient, qNodeIds, qErr, qFailed, qOutcome>>
    /\ QryOnly

EvaluateFail(i) ==
    /\ NodeAt(i, "Runtime.evaluate")
    /\ NodeRejects(i, "Runtime.evaluate")
    /\ UNCHANGED <<qSelector, qPage, qClient, qNodeIds, qElem, qOutcome>>
    /\ QryOnly

\* What the call delivers once the finally block has run.
QryCompletion ==
    IF qPending = "return"
    THEN [kind |-> "returned",
          elements |-> [i \in 1..Len(qNodeIds) |->
                           [nodeId |-> qNodeIds[i],
                            boundingBox |-> qElem[i].boundingBox,
                            isVisible |-> qElem[i].isVisible]]]
    ELSE [kind |-> "threw", message |-> qErr]

\* finally { if (client) await client.close() }
QryClose ==
    /\ qPc = "finally" /\ qClient = "open"
    /\ qClient' = "closed"
    /\ qPc' = "done"
    /\ qOutcome' = QryCompletion
    /\ UNCHANGED <<qSelector, qPage, qNodeIds, qNodePc, qElem, qPending, qErr, qFailed>>
    /\ QryOnly

QryFinallyNoClient ==
    /\ qPc = "finally" /\ qClient = "undefined"
    /\ qPc' = "done"
    /\ qOutcome' = QryCompletion
    /\ UNCHANGED <<qSelector, qPage, qClient, qNodeIds, qNodePc, qElem, qPending, qErr,
                   qFailed>>
    /\ QryOnly

NextQuery ==
    \/ \E selector \in Selectors, page \in Pages : QryInvoke(selector, page)
    \/ QryConnectOk
    \/ QryConnectFail
    \/ QryStepOk
    \/ QryStepFail
    \/ QrySelectOk
    \/ \E i \in 1..MaxNodes :
          \/ DescribeNodeOk(i)
          \/ DescribeNodeFail(i)
          \/ BoxModelOk(i)
          \/ BoxModelFail(i)
          \/ EvaluateOk(i)
          \/ EvaluateFail(i)
    \/ QryClose
    \/ QryFinallyNoClient

(***************************************************************************)
(* clickElement (chrome-api.ts).  The page is the number of elements the   *)
(* selector matches and the box of the first one; the page may write to    *)
(* its console at any time while the session is open.                      *)
(***************************************************************************)
MaxMatches == 2      \* elements of the page the selector matches
MaxClickLogs == 2    \* console messages the page writes during one call

NoBox == [has |-> FALSE, x |-> 0, y |-> 0, width |-> 0, height |-> 0]
Boxes == {NoBox,
          [has |-> TRUE, x |-> 10, y |-> 20, width |-> 5, height |-> 4]}

ClickPages == [selector : Selectors, matches : 0..MaxMatches, box : Boxes]

\* Math.round(model.content[0] + model.width / 2), and the same for y.
Center(box) == [given |-> TRUE,
                x |-> box.x + ((box.width + 1) \div 2),
                y |-> box.y + ((box.height + 1) \div 2)]
NoCenter == [given |-> FALSE]

NoNodeIds == [given |-> FALSE]
NodeIds(n) == [given |-> TRUE, ids |-> [i \in 1..n |-> i]]

\* A mutant of NoMatch: the empty result is not detected.
NoMatchNever(nodeIds) == FALSE

\* if (nodeIds.length === 0)
NoMatch(nodeIds) == Len(nodeIds.ids) = 0

NoElementFound(selector) == <<"No element found matching selector: ", selector>>

\* The in-page expression: document.querySelector(selector) and a
\* dispatchEvent on it.  With a quote in the selector the expression does
\* not parse, without a match it throws in the page; no event either way.
Dispatched(page, center) ==
    IF HasQuote(page.selector) \/ page.matches = 0
    THEN <<>>
    ELSE <<[element |-> 1, x |-> center.x, y |-> center.y]>>

\* A mutant of TimerArmed: the one-second timer never fires.
TimerNeverFires == FALSE

\* setTimeout(resolve, 1000) has been called and has not fired yet.
TimerArmed == cTimer = "armed"

IdleClk ==
    /\ cPc = "idle" /\ cPage = [selector |-> "", matches |-> 0, box |-> NoBox]
    /\ cClient = "undefined" /\ cNodeIds = NoNodeIds /\ cCenter = NoCenter
    /\ cClicks = <<>> /\ cListening = FALSE /\ cMessages = <<>> /\ cHeard = <<>>
    /\ cTimer = "unset" /\ cRace = "pending" /\ cPending = "none" /\ cErr = <<>>
    /\ cOutcome = NoOutcome

ClkSteps == <<"CDP", "DOM.enable", "Runtime.enable", "DOM.getDocument",
              "DOM.querySelectorAll", "DOM.getBoxModel", "Runtime.evaluate 1",
              "Runtime.evaluate 2", "Promise.race">>

ClkStepAfter(step) == ClkSteps[(CHOOSE i \in 1..Len(ClkSteps) : ClkSteps[i] = step) + 1]

\* catch (error) { throw error }, then finally.
ClkCatch(message) ==
    /\ cPc' = "finally"
    /\ cPending' = "throw"
    /\ cErr' = message

ClkInvoke(page) ==
    /\ cPc = "idle"
    /\ cPc' = "CDP"
    /\ cPage' = page
    /\ UNCHANGED <<cClient, cNodeIds, cCenter, cClicks, cListening, cMessages, cHeard,
                   cTimer, cRace, cPending, cErr, cOutcome>>
    /\ ClkOnly

ClkConnectOk ==
    /\ cPc = "CDP"
    /\ cClient' = "open"
    /\ cPc' = ClkStepAfter("CDP")
    /\ UNCHANGED <<cPage, cNodeIds, cCenter, cClicks, cListening, cMessages, cHeard,
                   cTimer, cRace, cPending, cErr, cOutcome>>
    /\ ClkOnly

ClkConnectFail ==
    /\ cPc = "CDP"
    /\ ClkCatch(<<"CDP">>)
    /\ UNCHANGED <<cPage, cClient, cNodeIds, cCenter, cClicks, cListening, cMessages,
                   cHeard, cTimer, cRace, cOutcome>>
    /\ ClkOnly

\* DOM.enable, Runtime.enable and DOM.getDocument resolve.
ClkStepOk ==
    /\ cPc \in {"DOM.enable", "Runtime.enable", "DOM.getDocument"}
    /\ cPc' = ClkStepAfter(cPc)
    /\ UNCHANGED <<cPage, cClient, cNodeIds, cCenter, cClicks, cListening, cMessages,
                   cHeard, cTimer, cRace, cPending, cErr, cOutcome>>
    /\ ClkOnly

\* A protocol command of the try block is rejected.
ClkStepFail ==
    /\ cPc \in {"DOM.enable", "Runtime.enable", "DOM.getDocument", "DOM.querySelectorAll",
                "DOM.getBoxModel", "Runtime.evaluate 1", "Runtime.evaluate 2"}
    /\ ClkCatch(<<cPc>>)
    /\ UNCHANGED <<cPage, cClient, cNodeIds, cCenter, cClicks, cListening, cMessages,
                   cHeard, cTimer, cRace, cOutcome>>
    /\ ClkOnly

\* DOM.querySelectorAll resolves; with no node id the operation throws.
ClkSelectOk ==
    /\ cPc = "DOM.querySelectorAll" /\ ValidCss(cPage.selector)
    /\ cNodeIds' = NodeIds(cPage.matches)
    /\ IF NoMatch(cNodeIds')
       THEN ClkCatch(NoElementFound(cPage.selector))
       ELSE cPc' = ClkStepAfter(cPc) /\ UNCHANGED <<cPending, cErr>>
    /\ UNCHANGED <<cPage, cClient, cCenter, cClicks, cListening, cMessages, cHeard,
                   cTimer, cRace, cOutcome>>
    /\ ClkOnly

\* DOM.getBoxModel({nodeId: nodeIds[0]}) resolves for a node that has a box.
ClkBoxModelOk ==
    /\ cPc = "DOM.getBoxModel"
    /\ Len(cNodeIds.ids) > 0 /\ cPage.box.has
    /\ cCenter' = Center(cPage.box)
    /\ cPc' = ClkStepAfter(cPc)
    /\ UNCHANGED <<cPage, cClient, cNodeIds, cClicks, cListening, cMessages, cHeard,
                   cTimer, cRace, cPending, cErr, cOutcome>>
    /\ ClkOnly

\* The first Runtime.evaluate replies: the page has run the expression.  The
\* listener and the timer are set up next, in the same turn.
ClkEvaluateFirst ==
    /\ cPc = "Runtime.evaluate 1"
    /\ cClicks' = cClicks \o Dispatched(cPage, cCenter)
    /\ cListening' = TRUE
    /\ cTimer' = "armed"
    /\ cPc' = ClkStepAfter(cPc)
    /\ UNCHANGED <<cPage, cClient, cNodeIds, cCenter, cMessages, cHeard, cRace,
                   cPending, cErr, cOutcome>>
    /\ ClkOnly

\* The second Runtime.evaluate replies: the page has run the expression again.
ClkEvaluateSecond ==
    /\ cPc = "Runtime.evaluate 2"
    /\ cClicks' = cClicks \o Dispatched(cPage, cCenter)
    /\ cPc' = ClkStepAfter(cPc)
    /\ UNCHANGED <<cPage, cClient, cNodeIds, cCenter, cListening, cMessages, cHeard,
                   cTimer, cRace, cPending, cErr, cOutcome>>
    /\ ClkOnly

\* Runtime.consoleAPICalled arrives on the open session (Runtime is enabled).
\* Without a registered listener it is dropped; the listener pushes the
\* message and resolves consolePromise.
ClkConsoleAPICalled ==
    /\ cClient = "open"
    /\ cPc \notin {"CDP", "DOM.enable", "Runtime.enable"}
    /\ Len(cHeard) < MaxClickLogs
    /\ cHeard' = Append(cHeard, [message |-> Len(cHeard) + 1, listened |-> cListening])
    /\ IF cListening
       THEN /\ cMessages' = Append(cMessages, Len(cHeard) + 1)
            /\ cRace' = IF cRace = "pending" THEN "console" ELSE cRace
       ELSE UNCHANGED <<cMessages, cRace>>
    /\ UNCHANGED <<cPc, cPage, cClient, cNodeIds, cCenter, cClicks, cListening, cTimer,
                   cPending, cErr, cOutcome>>
    /\ ClkOnly

\* The one-second timer fires and resolves timeoutPromise.
ClkTimerFires ==
    /\ TimerArmed
    /\ cTimer' = "fired"
    /\ cRace' = IF cRace = "pending" THEN "timer" ELSE cRace
    /\ UNCHANGED <<cPc, cPage, cClient, cNodeIds, cCenter, cClicks, cListening,
                   cMessages, cHeard, cPending, cErr, cOutcome>>
    /\ ClkOnly

\* await Promise.race([consolePromise, timeoutPromise]) resumes; the return
\* statement runs.
ClkRaceDone ==
    /\ cPc = "Promise.race" /\ cRace # "pending"
    /\ cPc' = "finally"
    /\ cPending' = "return"
    /\ UNCHANGED <<cPage, cClient, cNodeIds, cCenter, cClicks, cListening, cMessages,
                   cHeard, cTimer, cRace, cErr, cOutcome>>
    /\ ClkOnly

\* The returned object holds the consoleMessages array itself.
ClkCompletion ==
    IF cPending = "return"
    THEN [kind |-> "returned", consoleOutput |-> cMessages]
    ELSE [kind |-> "threw", message |-> cErr]

\* finally { if (client) await client.close() }
ClkClose ==
    /\ cPc = "finally" /\ cClient = "open"
    /\ cClient' = "closed"
    /\ cListening' = FALSE
    /\ cPc' = "done"
    /\ cOutcome' = ClkCompletion
    /\ UNCHANGED <<cPage, cNodeIds, cCenter, cClicks, cMessages, cHeard, cTimer, cRace,
                   cPending, cErr>>
    /\ ClkOnly

ClkFinallyNoClient ==
    /\ cPc = "finally" /\ cClient = "undefined"
    /\ cPc' = "done"
    /\ cOutcome' = ClkCompletion
    /\ UNCHANGED <<cPage, cClient, cNodeIds, cCenter, cClicks, cListening, cMessages,
                   cHeard, cTimer, cRace, cPending, cErr>>
    /\ ClkOnly

NextClick ==
    \/ \E page \in ClickPages : ClkInvoke(page)
    \/ ClkConnectOk
    \/ ClkConnectFail
    \/ ClkStepOk
    \/ ClkStepFail
    \/ ClkSelectOk
    \/ ClkBoxModelOk
    \/ ClkEvaluateFirst
    \/ ClkEvaluateSecond
    \/ ClkConsoleAPICalled
    \/ ClkTimerFires
    \/ ClkRaceDone
    \/ ClkClose
    \/ ClkFinallyNoClient

(***************************************************************************)
(* loadUrl and the per-tab console-log buffer (chrome-api.ts), next to the *)
(* other operations running on the same tabs.  A console message of a tab  *)
(* reaches every session that is open on the tab; a closed session         *)
(* receives nothing, so a listener registered on it is never called again. *)
(***************************************************************************)
NumNavCalls == 2     \* adapter calls, overlapping or in sequence
MaxProduced == 2     \* console messages the tabs write
MaxLoads == 2        \* load events one session receives

NavCalls == 1..NumNavCalls
Tabs == {"T1", "T2"}
ConsoleTypes == {"log", "error"}
NavOps == Ops \cup {"getConsoleLogs"}

\* A mutant of LoadSteps: loadUrl returns on the reply to Page.navigate.
LoadStepsNoWait == <<"CDP", "Runtime.enable", "Page.enable", "Page.navigate">>

\* The awaited steps of loadUrl's try block.
LoadSteps == TrySteps("loadUrl", FALSE)

NavSteps(o) ==
    IF o = "loadUrl" THEN LoadSteps
    ELSE IF o \in Ops THEN TrySteps(o, FALSE)
    ELSE <<>>

\* The index of the step after which the operation registers its
\* Runtime.consoleAPICalled listener; 0 when it registers none.
ListenAfter(o) ==
    CASE o = "loadUrl"       -> 2
      [] o = "executeScript" -> 2
      [] o = "clickElement"  -> 7
      [] OTHER               -> 0

\* A mutant of WritesBuffer: every console listener appends to the buffer.
WritesBufferAny(o) == TRUE

\* The listener that pushes to this.consoleLogs[tabId] is loadUrl's; the
\* listeners of executeScript and clickElement push to a list of the call.
WritesBuffer(o) == o = "loadUrl"

NoOptions == [status |-> "", since |-> 0]
LogOptions == [status : {""} \cup ConsoleTypes, since : {0, 2}]

\* logs.filter(log => matchesStatus && matchesSince)
RECURSIVE FilterLogs(_, _)
FilterLogs(logs, options) ==
    IF logs = <<>> THEN <<>>
    ELSE LET entry == Head(logs)
             matchesStatus == IF options.status # "" THEN entry.type = options.status ELSE TRUE
             matchesSince == IF options.since # 0 THEN entry.timestamp >= options.since ELSE TRUE
         IN  (IF matchesStatus /\ matchesSince THEN <<entry>> ELSE <<>>)
             \o FilterLogs(Tail(logs), options)

IdleNav ==
    /\ nOp = [c \in NavCalls |-> "none"]
    /\ nTab = [c \in NavCalls |-> "none"]
    /\ nPc = [c \in NavCalls |-> 0]
    /\ nClient = [c \in NavCalls |-> "undefined"]
    /\ nListening = [c \in NavCalls |-> FALSE]
    /\ nMessages = [c \in NavCalls |-> <<>>]
    /\ nLog = [c \in NavCalls |-> <<>>]
    /\ nOutcome = [c \in NavCalls |-> NoOutcome]
    /\ consoleLogs = [t \in Tabs |-> <<>>]
    /\ produced = <<>>

\* nPc[c]: 0 before the call, the index of the awaited step of the try
\* block while it runs, Finally in the finally block, Done afterwards.
Finally == 100
Done == 101

NavStep(c) == NavSteps(nOp[c])[nPc[c]]
InTry(c) == nPc[c] \in 1..Len(NavSteps(nOp[c]))

\* The front end calls an operation on a tab.
NavInvoke(c, o, t) ==
    /\ nPc[c] = 0 /\ o # "getConsoleLogs"
    /\ \A b \in NavCalls : b < c => nPc[b] # 0
    /\ nOp' = [nOp EXCEPT ![c] = o]
    /\ nTab' = [nTab EXCEPT ![c] = t]
    /\ nPc' = [nPc EXCEPT ![c] = 1]
    /\ UNCHANGED <<nClient, nListening, nMessages, nLog, nOutcome, consoleLogs, produced>>
    /\ NavOnly

\* getConsoleLogs(tabId, options) runs in one turn and returns a new list.
GetConsoleLogs(c, t, options) ==
    /\ nPc[c] = 0
    /\ \A b \in NavCalls : b < c => nPc[b] # 0
    /\ nOp' = [nOp EXCEPT ![c] = "getConsoleLogs"]
    /\ nTab' = [nTab EXCEPT ![c] = t]
    /\ nPc' = [nPc EXCEPT ![c] = Done]
    /\ nOutcome' = [nOutcome EXCEPT ![c] =
                       [kind |-> "returned", logs |-> FilterLogs(consoleLogs[t], options)]]
    /\ UNCHANGED <<nClient, nListening, nMessages, nLog, consoleLogs, produced>>
    /\ NavOnly

\* The try block moves past step nPc[c]; after the last step the operation's
\* return statement runs.
NavAdvance(c) ==
    IF nPc[c] = Len(NavSteps(nOp[c]))
    THEN /\ nPc' = [nPc EXCEPT ![c] = Finally]
         /\ nOutcome' = [nOutcome EXCEPT ![c] = [kind |-> "returning"]]
    ELSE /\ nPc' = [nPc EXCEPT ![c] = @ + 1]
         /\ UNCHANGED nOutcome

\* An awaited step resolves.  After Runtime.enable loadUrl resets the tab's
\* buffer; after step ListenAfter the console listener is registered.
NavStepOk(c) ==
    /\ InTry(c) /\ NavStep(c) # "Page.loadEventFired"
    /\ NavAdvance(c)
    /\ nClient' = [nClient EXCEPT ![c] = "open"]
    /\ nListening' = [nListening EXCEPT ![c] = @ \/ nPc[c] = ListenAfter(nOp[c])]
    /\ consoleLogs' = IF nOp[c] = "loadUrl" /\ NavStep(c) = "Runtime.enable"
                      THEN [consoleLogs EXCEPT ![nTab[c]] = <<>>]
                      ELSE consoleLogs
    /\ nLog' = [nLog EXCEPT ![c] = IF NavStep(c) = "Page.navigate"
                                   THEN Append(@, "Page.navigate") ELSE @]
    /\ UNCHANGED <<nOp, nTab, nMessages, produced>>
    /\ NavOnly

\* A protocol command is rejected: catch rethrows, finally runs.
NavStepFail(c) ==
    /\ InTry(c) /\ CanFail(NavStep(c))
    /\ nPc' = [nPc EXCEPT ![c] = Finally]
    /\ nOutcome' = [nOutcome EXCEPT ![c] = [kind |-> "throwing"]]
    /\ UNCHANGED <<nOp, nTab, nClient, nListening, nMessages, nLog, consoleLogs, produced>>
    /\ NavOnly

\* Page.loadEventFired arrives on a session whose Page domain is enabled.
\* It resolves `await client.Page.loadEventFired()` when that is waiting,
\* and is dropped otherwise.
LoadEventFired(c) ==
    /\ nOp[c] = "loadUrl" /\ nClient[c] = "open" /\ InTry(c) /\ nPc[c] > 3
    /\ Cardinality({i \in 1..Len(nLog[c]) : nLog[c][i] = "loadEventFired"}) < MaxLoads
    /\ nLog' = [nLog EXCEPT ![c] = Append(@, "loadEventFired")]
    /\ IF NavStep(c) = "Page.loadEventFired"
       THEN NavAdvance(c)
       ELSE UNCHANGED <<nPc, nOutcome>>
    /\ UNCHANGED <<nOp, nTab, nClient, nListening, nMessages, consoleLogs, produced>>
    /\ NavOnly

\* The sessions whose console listener hears a message of tab t.
Hearing(t) == {c \in NavCalls : nTab[c] = t /\ nClient[c] = "open" /\ nListening[c]}

\* The loadUrl calls on tab t that have returned, their session closed.
ReturnedLoads(t) ==
    {c \in NavCalls : nOp[c] = "loadUrl" /\ nTab[c] = t /\ nOutcome[c].kind = "returned"}

RECURSIVE Repeat(_, _)
Repeat(entry, n) == IF n = 0 THEN <<>> ELSE <<entry>> \o Repeat(entry, n - 1)

\* The page of tab t calls the console API.  Every hearing listener runs:
\* loadUrl's pushes {type, message, timestamp} to this.consoleLogs[tabId],
\* the others push to the consoleMessages of their call.
ConsoleAPICalled(t, type) ==
    /\ Len(produced) < MaxProduced
    /\ LET entry == [type |-> type, message |-> Len(produced) + 1,
                     timestamp |-> Len(produced) + 1]
           writers == {c \in Hearing(t) : WritesBuffer(nOp[c])}
       IN  /\ produced' = Append(produced, [tab |-> t, entry |-> entry,
                                            hearing |-> Hearing(t),
                                            returned |-> ReturnedLoads(t)])
           /\ consoleLogs' = [consoleLogs EXCEPT ![t] = @ \o Repeat(entry, Cardinality(writers))]
           /\ nMessages' = [c \in NavCalls |->
                               IF c \in Hearing(t) \ writers
                               THEN Append(nMessages[c], entry) ELSE nMessages[c]]
    /\ UNCHANGED <<nOp, nTab, nPc, nClient, nListening, nLog, nOutcome>>
    /\ NavOnly

\* finally { if (client) await client.close() }: the socket is closed and
\* delivers no further event.
NavClose(c) ==
    /\ nPc[c] = Finally
    /\ nPc' = [nPc EXCEPT ![c] = Done]
    /\ nClient' = [nClient EXCEPT ![c] = IF @ = "open" THEN "closed" ELSE @]
    /\ nOutcome' = [nOutcome EXCEPT ![c] =
                       [kind |-> IF @.kind = "returning" THEN "returned" ELSE "threw"]]
    /\ UNCHANGED <<nOp, nTab, nListening, nMessages, nLog, consoleLogs, produced>>
    /\ NavOnly

NextNav ==
    \/ \E c \in NavCalls, o \in NavOps, t \in Tabs : NavInvoke(c, o, t)
    \/ \E c \in NavCalls, t \in Tabs, options \in LogOptions : GetConsoleLogs(c, t, options)
    \/ \E c \in NavCalls :
          \/ NavStepOk(c)
          \/ NavStepFail(c)
          \/ LoadEventFired(c)
          \/ NavClose(c)
    \/ \E t \in Tabs, type \in ConsoleTypes : ConsoleAPICalled(t, type)

(***************************************************************************)
(* The tool front end (index.ts): every handler is                         *)
(*     try { result = await chromeApi.<operation>(...); return {content} } *)
(*     catch (error) { return {content: `Error: ...`, isError: true} }     *)
(* execute_script is modelled down to the reply of Runtime.evaluate, and   *)
(* capture_screenshot runs processImage (the ladder above) and saveImage.  *)
(***************************************************************************)
Tools == {"list_tabs", "execute_script", "capture_screenshot", "capture_network_events",
          "load_url", "query_dom_elements", "click_element"}

\* Scripts: one that evaluates to a value, one that throws in the page.
Scripts == {"1 + 1", "throw new Error('boom')"}

Throws(source) == source = "throw new Error('boom')"

\* The messages of the errors the adapter operations throw.
ListTabsError == <<"Failed to connect to Chrome DevTools. ", "CHROME_ERROR_HELP">>
ProtocolError == <<"protocol error">>
ThrownBy(t) ==
    CASE t = "list_tabs"          -> {ListTabsError}
      [] t = "query_dom_elements" -> {QueryError(s, "CDP") : s \in Selectors}
      [] OTHER                    -> {ProtocolError}

Returned(value) == [kind |-> "returned", value |-> value]
Threw(message) == [kind |-> "threw", instanceOfError |-> TRUE, message |-> message]

\* error instanceof Error ? error.message : 'Unknown error occurred'
MessageOf(error) ==
    IF error.instanceOfError THEN error.message ELSE <<"Unknown error occurred">>

NoResponse == [isError |-> FALSE, text |-> <<>>]

\* return { content: [{ type: 'text', text }] }
TextResponse(text) == [isError |-> FALSE, text |-> text]

\* A mutant of ErrorResponse: the error text is returned without the flag.
ErrorResponseUnflagged(prefix, error) ==
    [isError |-> FALSE, text |-> <<prefix>> \o MessageOf(error)]

\* return { content: [{ type: 'text', text: `Error: ${errorMessage}` }], isError: true }
ErrorResponse(prefix, error) ==
    [isError |-> TRUE, text |-> <<prefix>> \o MessageOf(error)]

\* What Runtime.evaluate answers for a script: a protocol error rejects the
\* command; an exception raised by the script is a reply, with the
\* exception in result and in exceptionDetails.
EvaluateReplies(source) ==
    {"rejected"} \cup (IF Throws(source) THEN {"exceptionDetails"} ELSE {"value"})

\* JSON.stringify({ result: result.result, consoleOutput: consoleMessages })
ExecutePayload(reply) ==
    <<"{result: ", IF reply = "value" THEN "2" ELSE "Error: boom", ", consoleOutput: []}">>

IdleTools ==
    /\ tool = "none" /\ script = "" /\ toolPc = "idle" /\ exeReply = "none"
    /\ adapterOutcome = NoOutcome /\ postOutcome = NoOutcome /\ response = NoResponse

ToolOnly == UNCHANGED <<sessVars, netVars, domVars, qryVars, clkVars, navVars,
                       epVars, saveVars>>

\* The host calls a tool; the handler calls the adapter operation.
ToolCall(t, source) ==
    /\ toolPc = "idle"
    /\ (t # "execute_script" => source = "")
    /\ (t = "execute_script" => source \in Scripts)
    /\ tool' = t
    /\ script' = source
    /\ toolPc' = IF t = "execute_script" THEN "CDP" ELSE "adapter"
    /\ UNCHANGED <<exeReply, adapterOutcome, postOutcome, response, imgVars>>
    /\ ToolOnly

\* The handler's try block continues after the adapter operation returned.
AfterAdapter(t, value) ==
    IF t = "capture_screenshot"
    THEN /\ toolPc' = "processImage"
         /\ imgPc' = "start"
         /\ UNCHANGED <<imgTried, imgResult, response>>
    ELSE /\ toolPc' = "responded"
         /\ response' = TextResponse(value)
         /\ UNCHANGED imgVars

\* The adapter operation returns.
AdapterReturns ==
    /\ toolPc = "adapter"
    /\ adapterOutcome' = Returned(<<tool>>)
    /\ AfterAdapter(tool, <<tool>>)
    /\ UNCHANGED <<tool, script, exeReply, postOutcome>>
    /\ ToolOnly

\* The adapter operation throws: the handler's catch answers.
AdapterThrows(message) ==
    /\ toolPc = "adapter" /\ message \in ThrownBy(tool)
    /\ adapterOutcome' = Threw(message)
    /\ toolPc' = "responded"
    /\ response' = ErrorResponse("Error: ", Threw(message))
    /\ UNCHANGED <<tool, script, exeReply, postOutcome, imgVars>>
    /\ ToolOnly

\* executeScript: CDP(...) and Runtime.enable resolve.
ExecStepOk ==
    /\ toolPc \in {"CDP", "Runtime.enable"}
    /\ toolPc' = IF toolPc = "CDP" THEN "Runtime.enable" ELSE "Runtime.evaluate"
    /\ UNCHANGED <<tool, script, exeReply, adapterOutcome, postOutcome, response, imgVars>>
    /\ ToolOnly

\* executeScript: CDP(...) or Runtime.enable rejects; catch rethrows, finally
\* closes, the handler's catch answers.
ExecStepFail ==
    /\ toolPc \in {"CDP", "Runtime.enable"}
    /\ adapterOutcome' = Threw(ProtocolError)
    /\ toolPc' = "responded"
    /\ response' = ErrorResponse("Error: ", Threw(ProtocolError))
    /\ UNCHANGED <<tool, script, exeReply, postOutcome, imgVars>>
    /\ ToolOnly

\* executeScript: Runtime.evaluate answers.  Only a rejected command leaves
\* the try block; any reply is serialised into the payload, and the handler
\* answers with `result || 'undefined'`.
ExecEvaluate(reply) ==
    /\ toolPc = "Runtime.evaluate" /\ reply \in EvaluateReplies(script)
    /\ exeReply' = reply
    /\ toolPc' = "responded"
    /\ IF reply = "rejected"
       THEN /\ adapterOutcome' = Threw(ProtocolError)
            /\ response' = ErrorResponse("Error: ", Threw(ProtocolError))
       ELSE /\ adapterOutcome' = Returned(ExecutePayload(reply))
            /\ response' = TextResponse(ExecutePayload(reply))
    /\ UNCHANGED <<tool, script, postOutcome, imgVars>>
    /\ ToolOnly

\* capture_screenshot: processImage has ended.  Its error is answered by the
\* inner catch; its image is handed to saveImage.
ProcessImageEnds ==
    /\ toolPc = "processImage" /\ imgPc = "done"
    /\ IF imgResult.kind = "image"
       THEN /\ toolPc' = "saveImage"
            /\ UNCHANGED <<postOutcome, response>>
       ELSE /\ toolPc' = "responded"
            /\ postOutcome' = Threw(imgResult.message)
            /\ response' = ErrorResponse("Error processing screenshot: ",
                                         Threw(imgResult.message))
    /\ UNCHANGED <<tool, script, exeReply, adapterOutcome, imgVars>>
    /\ ToolOnly

\* saveImage wrote the file.
SaveImageOk ==
    /\ toolPc = "saveImage"
    /\ toolPc' = "responded"
    /\ postOutcome' = Returned(<<"filepath">>)
    /\ response' = TextResponse(<<"{status: Screenshot successful., path: ", "filepath", "}">>)
    /\ UNCHANGED <<tool, script, exeReply, adapterOutcome, imgVars>>
    /\ ToolOnly

\* fs.mkdir or fs.writeFile rejects: the inner catch answers.
SaveImageFail ==
    /\ toolPc = "saveImage"
    /\ toolPc' = "responded"
    /\ postOutcome' = Threw(<<"EACCES">>)
    /\ response' = ErrorResponse("Error processing screenshot: ", Threw(<<"EACCES">>))
    /\ UNCHANGED <<tool, script, exeReply, adapterOutcome, imgVars>>
    /\ ToolOnly

NextTools ==
    \/ \E t \in Tools, source \in Scripts \cup {""} : ToolCall(t, source)
    \/ AdapterReturns
    \/ \E message \in UNION {ThrownBy(t) : t \in Tools} : AdapterThrows(message)
    \/ ExecStepOk
    \/ ExecStepFail
    \/ \E reply \in {"value", "exceptionDetails", "rejected"} : ExecEvaluate(reply)
    \/ ProcessImageEnds
    \/ SaveImageOk
    \/ SaveImageFail
    \/ NextImg

(***************************************************************************)
(* The debugging endpoint and listTabs (index.ts, chrome-api.ts).          *)
(*     const chromeDebugUrl = process.env.CHROME_DEBUG_URL                 *)
(*                            || 'http://localhost:9222';                  *)
(*     const chromeApi = new ChromeAPI({ baseUrl: chromeDebugUrl });       *)
(* Strings are sequences of characters, so that the port getter's regular  *)
(* expression is computed on the text of the URL.                          *)
(***************************************************************************)
MaxChanges  == 2     \* bound: changes of the browser's tab set
MaxListings == 2     \* bound: listTabs calls

DefaultPort == 9222

Scheme     == <<"h", "t", "t", "p", ":", "/", "/">>
LocalHost  == <<"l", "o", "c", "a", "l", "h", "o", "s", "t">>
RemoteHost == <<"c", "h", "r", "o", "m", "e">>
Port9222   == <<"9", "2", "2", "2">>
Port9333   == <<"9", "3", "3", "3">>

\* The values of CHROME_DEBUG_URL: unset (or empty), or an http URL with
\* or without a port and with or without a trailing slash.
EnvValues ==
    {<<>>} \cup
    {Scheme \o h \o p \o t : h \in {LocalHost, RemoteHost},
                             p \in {<<>>, <<":">> \o Port9222, <<":">> \o Port9333},
                             t \in {<<>>, <<"/">>}}

DigitChars == <<"0", "1", "2", "3", "4", "5", "6", "7", "8", "9">>

IsDigit(ch) == \E n \in 1..10 : DigitChars[n] = ch

DigitValue(ch) == (CHOOSE n \in 1..10 : DigitChars[n] = ch) - 1

\* parseInt of a string of decimal digits.
RECURSIVE ParseInt(_)
ParseInt(digits) ==
    IF digits = <<>> THEN 0
    ELSE 10 * ParseInt(SubSeq(digits, 1, Len(digits) - 1))
         + DigitValue(digits[Len(digits)])

\* The number of digits the string ends with.
RECURSIVE TrailingDigits(_)
TrailingDigits(str) ==
    IF str = <<>> \/ ~IsDigit(str[Len(str)]) THEN 0
    ELSE 1 + TrailingDigits(SubSeq(str, 1, Len(str) - 1))

\* this.baseUrl.match(/:(\d+)$/): the capture group, the digits between a
\* colon and the end of the string; <<>> stands for null (no match).
PortMatch(url) ==
    LET n == TrailingDigits(url) IN
    IF n >= 1 /\ Len(url) > n /\ url[Len(url) - n] = ":"
    THEN SubSeq(url, Len(url) - n + 1, Len(url))
    ELSE <<>>

\* private get port(): portMatch ? parseInt(portMatch[1]) : 9222
Port(url) == IF PortMatch(url) # <<>> THEN ParseInt(PortMatch(url)) ELSE DefaultPort

\* process.env.CHROME_DEBUG_URL || 'http://localhost:9222'
ChromeDebugUrl(env) ==
    IF env = <<>> THEN Scheme \o LocalHost \o <<":">> \o Port9222 ELSE env

\* The constructor: this.baseUrl = baseUrl || `http://localhost:${port}`,
\* port defaulting to 9222.
NewChromeAPI(baseUrlOption) ==
    IF baseUrlOption = <<>> THEN Scheme \o LocalHost \o <<":">> \o Port9222
    ELSE baseUrlOption

\* The options of CDP.List({ port }) and of CDP({ target, port }): the
\* adapter passes a port and never a host.
ConnectOptions(url) == [port |-> Port(url)]

\* Where chrome-remote-interface connects: options.host, by default localhost.
Endpoint(options) ==
    [host |-> IF "host" \in DOMAIN options THEN options.host ELSE LocalHost,
     port |-> options.port]

\* A mutant of AfterList: listing opens a tab, as CDP.New does.
AfterListNew(tabs) == Tabs

\* The browser's tabs after CDP.List: the listing is a read of /json/list.
AfterList(tabs) == tabs

IdleEp ==
    /\ baseUrl = NewChromeAPI(ChromeDebugUrl(<<>>))
    /\ targets = {}
    /\ epoch = 0
    /\ listings = <<>>
    /\ connections = {}
    /\ listPc = "idle"

\* The process starts: the environment is read once and the adapter built;
\* the browser has some tabs.
InitEp ==
    /\ \E env \in EnvValues : baseUrl = NewChromeAPI(ChromeDebugUrl(env))
    /\ targets \in SUBSET Tabs
    /\ epoch = 0
    /\ listings = <<>>
    /\ connections = {}
    /\ listPc = "idle"

\* listTabs() is called: CDP.List({ port: this.port }) is issued.
ListTabsCall ==
    /\ listPc = "idle"
    /\ Len(listings) < MaxListings
    /\ listPc' = "CDP.List"
    /\ connections' = connections \cup
           {[call |-> "CDP.List", endpoint |-> Endpoint(ConnectOptions(baseUrl))]}
    /\ UNCHANGED <<baseUrl, targets, epoch, listings>>
    /\ EpOnly

\* CDP.List resolves: listTabs returns the targets it was given.
ListTabsOk ==
    /\ listPc = "CDP.List"
    /\ listings' = Append(listings, [kind |-> "returned", ids |-> targets,
                                     epoch |-> epoch])
    /\ targets' = AfterList(targets)
    /\ listPc' = "idle"
    /\ UNCHANGED <<baseUrl, epoch, connections>>
    /\ EpOnly

\* CDP.List rejects: listTabs throws its connection error.
ListTabsFail ==
    /\ listPc = "CDP.List"
    /\ listings' = Append(listings, [kind |-> "threw", message |-> ListTabsError])
    /\ listPc' = "idle"
    /\ UNCHANGED <<baseUrl, targets, epoch, connections>>
    /\ EpOnly

\* A tab operation opens its session: CDP({ target: tabId, port: this.port }).
OpenSession ==
    /\ \E t \in targets :
          LET k == [call |-> "CDP", target |-> t,
                    endpoint |-> Endpoint(ConnectOptions(baseUrl))] IN
          /\ k \notin connections
          /\ connections' = connections \cup {k}
    /\ UNCHANGED <<baseUrl, targets, epoch, listings, listPc>>
    /\ EpOnly

\* The browser's tab set changes: a tab is opened or closed.
BrowserChange ==
    /\ epoch < MaxChanges
    /\ \E tabs \in SUBSET Tabs :
          /\ tabs # targets
          /\ targets' = tabs
    /\ epoch' = epoch + 1
    /\ UNCHANGED <<baseUrl, listings, connections, listPc>>
    /\ EpOnly

NextEp ==
    \/ ListTabsCall
    \/ ListTabsOk
    \/ ListTabsFail
    \/ OpenSession
    \/ BrowserChange

(***************************************************************************)
(* saveImage (image-utils.ts), called by overlapping capture_screenshot    *)
(* invocations:                                                            *)
(*     await fs.mkdir(SCREENSHOT_DIR, { recursive: true });                *)
(*     const filename = `screenshot_${Date.now()}.webp`;                   *)
(*     const filepath = path.join(SCREENSHOT_DIR, filename);               *)
(*     await fs.writeFile(filepath, imageBuffer);                          *)
(*     return filepath;                                                    *)
(***************************************************************************)
NumSaves == 2        \* bound: overlapping capture_screenshot invocations
MaxClock == 2        \* bound: milliseconds the clock advances

SaveCalls == 1..NumSaves

ScreenshotDir == "/tmp/chrome-tools-screenshots"

Filename(ms) == <<"screenshot_", ms, ".webp">>

Filepath(ms) == <<ScreenshotDir>> \o Filename(ms)

NoPath == <<>>

\* fs.writeFile creates the file or replaces its content.
WriteFile(fs, path, data) ==
    {f \in fs : f.path # path} \cup {[path |-> path, data |-> data]}

IdleSave ==
    /\ now = 0
    /\ sPc = [c \in SaveCalls |-> "idle"]
    /\ sPath = [c \in SaveCalls |-> NoPath]
    /\ files = {}

\* The handler of invocation c calls saveImage with its processed image.
SaveImage(c) ==
    /\ sPc[c] = "idle"
    /\ sPc' = [sPc EXCEPT ![c] = "fs.mkdir"]
    /\ UNCHANGED <<now, sPath, files>>
    /\ SaveOnly

\* fs.mkdir resolves: the file name is taken from the clock and the write
\* is issued.
MkdirOk(c) ==
    /\ sPc[c] = "fs.mkdir"
    /\ sPath' = [sPath EXCEPT ![c] = Filepath(now)]
    /\ sPc' = [sPc EXCEPT ![c] = "fs.writeFile"]
    /\ UNCHANGED <<now, files>>
    /\ SaveOnly

MkdirFail(c) ==
    /\ sPc[c] = "fs.mkdir"
    /\ sPc' = [sPc EXCEPT ![c] = "threw"]
    /\ UNCHANGED <<now, sPath, files>>
    /\ SaveOnly

\* fs.writeFile resolves: the file holds the image of invocation c and
\* saveImage returns the path.
WriteFileOk(c) ==
    /\ sPc[c] = "fs.writeFile"
    /\ files' = WriteFile(files, sPath[c], c)
    /\ sPc' = [sPc EXCEPT ![c] = "returned"]
    /\ UNCHANGED <<now, sPath>>
    /\ SaveOnly

WriteFileFail(c) ==
    /\ sPc[c] = "fs.writeFile"
    /\ sPc' = [sPc EXCEPT ![c] = "threw"]
    /\ UNCHANGED <<now, sPath, files>>
    /\ SaveOnly

\* A millisecond passes.
ClockTick ==
    /\ now < MaxClock
    /\ now' = now + 1
    /\ UNCHANGED <<sPc, sPath, files>>
    /\ SaveOnly

NextSave ==
    \/ \E c \in SaveCalls :
          \/ SaveImage(c)
          \/ MkdirOk(c)
          \/ MkdirFail(c)
          \/ WriteFileOk(c)
          \/ WriteFileFail(c)
    \/ ClockTick

(***************************************************************************)
(* The specifications.                                                     *)
(***************************************************************************)
IdleRest == IdleQry /\ IdleClk /\ IdleNav /\ IdleTools /\ IdleEp /\ IdleSave

Init == InitSess /\ IdleImg /\ IdleNet /\ IdleDom /\ IdleRest

Next == NextSess

Spec == Init /\ [][Next]_vars

SpecImgInit == InitSess /\ InitImg /\ IdleNet /\ IdleDom /\ IdleRest

SpecImg == SpecImgInit /\ [][NextImg]_vars

SpecNetInit == InitSess /\ IdleImg /\ IdleNet /\ IdleDom /\ IdleRest

SpecNet == SpecNetInit /\ [][NextNet]_vars

SpecNetFilters == SpecNetInit /\ [][NextNetFilters]_vars

SpecNetTime == SpecNetInit /\ [][NextNetTime]_vars

SpecDomInit == InitSess /\ IdleImg /\ IdleNet /\ InitDom /\ IdleRest

SpecDom == SpecDomInit /\ [][NextDom]_vars

SpecQuery == Init /\ [][NextQuery]_vars

SpecClick == Init /\ [][NextClick]_vars

\* The event loop runs a due timer and a resumed continuation, and
\* client.close() completes.
SpecClickLive ==
    /\ Init /\ [][NextClick]_vars
    /\ WF_vars(ClkTimerFires) /\ WF_vars(ClkRaceDone) /\ WF_vars(ClkClose)

SpecNav == Init /\ [][NextNav]_vars

\* loadUrl alone, on silent pages: the commands are answered and
\* client.close() completes; the page is under no obligation to fire a
\* load event.
NextLoad ==
    \/ \E c \in NavCalls, t \in Tabs : NavInvoke(c, "loadUrl", t)
    \/ \E c \in NavCalls :
          \/ NavStepOk(c)
          \/ NavStepFail(c)
          \/ LoadEventFired(c)
          \/ NavClose(c)

SpecLoadLive ==
    /\ Init /\ [][NextLoad]_vars
    /\ \A c \in NavCalls : WF_vars(NavStepOk(c)) /\ WF_vars(NavClose(c))

SpecTools == Init /\ [][NextTools]_vars

SpecEpInit ==
    /\ InitSess /\ IdleImg /\ IdleNet /\ IdleDom
    /\ IdleQry /\ IdleClk /\ IdleNav /\ IdleTools /\ InitEp /\ IdleSave

SpecEp == SpecEpInit /\ [][NextEp]_vars

SpecSave == Init /\ [][NextSave]_vars

(***************************************************************************)
(* Properties of the session life cycle (Spec).                            *)
(***************************************************************************)
Issued(c, step, result) == \E i \in 1..Len(log[c]) : log[c][i] = <<step, result>>

SetOverride == "Emulation.setDeviceMetricsOverride"
ClearOverride == "Emulation.clearDeviceMetricsOverride"

\* C1: once an operation has opened its session, the session is closed by
\* the time the operation returns or throws, whichever step failed.
C1_SessionClosedOnExit ==
    \A c \in Calls :
        (pc[c] = "done" /\ Issued(c, "CDP", "ok")) => client[c] = "closed"

LadderIndex(step) == CHOOSE i \in 1..Len(Ladder) : Ladder[i] = step

LastTried == imgTried[Len(imgTried)]

\* C3 as stated: processImage returns at most 1 MiB or fails with the
\* 'Image is too large even after compression' error, and nothing else.
C3_SizeOrTooLarge ==
    imgPc = "done" =>
        \/ imgResult.kind = "image" /\ imgResult.size <= 1024 * 1024
        \/ imgResult.kind = "error" /\ imgResult.message[2] = TooLarge

\* C3 as amended: processImage returns at most 1 MiB or fails with a
\* 'Failed to process image: ...' error; the error carries the too-large
\* text exactly when the last (downscaled PNG) step still exceeds 1 MiB, and
\* the codec's own message when the pipeline or a PNG encode fails.
C3_SizeOrFailure ==
    imgPc = "done" =>
        \/ imgResult.kind = "image" /\ imgResult.size <= 1024 * 1024
        \/ /\ imgResult.kind = "error"
           /\ imgResult.message[1] = "Failed to process image: "
           /\ imgResult.message[2] \in {TooLarge, CodecError}
           /\ imgResult.message[2] = TooLarge <=>
                 (/\ imgTried # <<>>
                  /\ LastTried.step = "pngSmall"
                  /\ LastTried.size > 1024 * 1024)

\* The ladder is exhausted: all four encodes ran and the last is too large.
C3_Witness ==
    /\ imgPc = "done"
    /\ Len(imgTried) = 4
    /\ imgResult.kind = "error" /\ imgResult.message[2] = TooLarge

\* C4: the steps run in ladder order, the result is the output of the first
\* step that fits in 1 MiB, tagged with that step's format and carrying that
\* step's length; a first pass over 1 MiB followed by a second pass of
\* 900 KB returns the WebP payload of 900 KB.
C4_LadderOrder ==
    /\ \A i, j \in 1..Len(imgTried) :
          i < j => LadderIndex(imgTried[i].step) < LadderIndex(imgTried[j].step)
    /\ \A i \in 1..(Len(imgTried) - 1) :
          \* the next step tried is the next of the ladder; only a WebP
          \* failure at the first step skips the second WebP step
          \/ LadderIndex(imgTried[i + 1].step) = LadderIndex(imgTried[i].step) + 1
          \/ /\ imgTried[i] = [step |-> "webp80", size |-> -1]
             /\ imgTried[i + 1].step = "png"
    /\ imgTried # <<>> => imgTried[1].step = "webp80"
    /\ imgResult.kind = "image" =>
          /\ imgTried # <<>>
          /\ imgResult.step = LastTried.step
          /\ imgResult.size = LastTried.size
          /\ imgResult.size >= 0 /\ imgResult.size <= 1024 * 1024
          /\ \A i \in 1..(Len(imgTried) - 1) :
                imgTried[i].size = -1 \/ imgTried[i].size > 1024 * 1024
          /\ imgResult.prefix =
                CASE imgResult.step \in {"webp80", "webp60"} -> "data:image/webp;base64,"
                  [] imgResult.step \in {"png", "pngSmall"}  -> "data:image/png;base64,"
    /\ (/\ imgPc = "done"
        /\ Len(imgTried) = 2
        /\ imgTried[1].step = "webp80" /\ imgTried[1].size > 1024 * 1024
        /\ imgTried[2] = [step |-> "webp60", size |-> 900 * 1024])
       => /\ imgResult.kind = "image"
          /\ imgResult.prefix = "data:image/webp;base64,"
          /\ imgResult.size = 921600

\* The WebP steps did not fit and the plain PNG step did.
C4_Witness ==
    /\ imgPc = "done"
    /\ Len(imgTried) = 3
    /\ imgTried[1].size > 1024 * 1024 /\ imgTried[2].size > 1024 * 1024
    /\ imgResult.kind = "image" /\ imgResult.step = "png"
    /\ imgResult.prefix = "data:image/png;base64,"

(***************************************************************************)
(* Properties of captureNetworkEvents (SpecNet, SpecNetFilters,            *)
(* SpecNetTime).  netLog is the sequence of notifications the handlers     *)
(* received; an entry's ref is the record the request handler stored for   *)
(* it (0 when it stored none).                                             *)
(***************************************************************************)
IsRequest(i) == netLog[i].msg.kind = "requestWillBeSent"
IsResponse(i) == netLog[i].msg.kind = "responseReceived"

\* The record `ref` was created for a request that a later response matched.
Completed(ref) ==
    \E i, j \in 1..Len(netLog) :
        /\ i < j
        /\ IsRequest(i) /\ netLog[i].ref = ref
        /\ IsResponse(j) /\ netLog[j].msg.requestId = netLog[i].msg.requestId

\* The kind and the filter verdict of a request notification, restated from
\* the tool's contract.
KindOf(msg) == IF msg.type \in {<<"X", "H", "R">>, <<"x", "h", "r">>} THEN "xhr" ELSE "fetch"

Wanted(msg) ==
    \/ ~netFilters.given
    \/ /\ (netFilters.types.given => KindOf(msg) \in netFilters.types.set)
       /\ (netFilters.urlPattern # <<>> =>
              \E a \in 1..Len(msg.url), b \in 0..Len(msg.url) :
                  SubSeq(msg.url, a, b) = netFilters.urlPattern)

\* C5: every record of the result is a completed record: its responseTime
\* and status were set by a responseReceived notification that followed a
\* requestWillBeSent with the same identifier in this call; a record without
\* such a response carries no responseTime and is not in the result.
C5_CompletedRecords ==
    /\ \A k \in 1..Len(events) :
          /\ events[k] \in 1..Len(heap)
          /\ heap[events[k]].responseTime # 0
          /\ heap[events[k]].status # 0
          /\ Completed(events[k])
    /\ \A ref \in 1..Len(heap) :
          ~Completed(ref) =>
              /\ heap[ref].responseTime = 0
              /\ \A k \in 1..Len(events) : events[k] # ref
    /\ netOutcome.kind = "returned" => netOutcome.value = events

\* The call returned a record although a response arrived for a request
\* that was never announced and another stored request got no response.
C5_Witness ==
    /\ netOutcome.kind = "returned"
    /\ Len(netOutcome.value) >= 1
    /\ \E ref \in 1..Len(heap) : ~Completed(ref)
    /\ \E j \in 1..Len(netLog) :
          IsResponse(j) /\ netLog[j].ref = 0

\* C6: with filters, every stored record and so every record of the result
\* has a type in filters.types (when given) and a URL matching
\* filters.urlPattern (when given); a request failing a filter is not stored.
C6_FilteredOut ==
    /\ \A i \in 1..Len(netLog) :
          IsRequest(i) =>
              /\ ~Wanted(netLog[i].msg) => netLog[i].ref = 0
              /\ netLog[i].ref # 0 =>
                    /\ heap[netLog[i].ref].type = KindOf(netLog[i].msg)
                    /\ heap[netLog[i].ref].url = netLog[i].msg.url
    /\ \A ref \in 1..Len(heap) :
          \E i \in 1..Len(netLog) : IsRequest(i) /\ netLog[i].ref = ref
    /\ \A id \in DOMAIN requests : requests[id] \in 1..Len(heap)
    /\ \A k \in 1..Len(events) : events[k] \in 1..Len(heap)
    /\ netFilters.given =>
          \A ref \in 1..Len(heap) :
              /\ netFilters.types.given => heap[ref].type \in netFilters.types.set
              /\ netFilters.urlPattern # <<>> =>
                    \E a \in 1..Len(heap[ref].url), b \in 0..Len(heap[ref].url) :
                        SubSeq(heap[ref].url, a, b) = netFilters.urlPattern

\* A filtered call returned nothing although a request failing the filter
\* was announced and answered.
C6_Witness ==
    /\ netOutcome.kind = "returned"
    /\ netFilters.given
    /\ netOutcome.value = <<>>
    /\ \E i, j \in 1..Len(netLog) :
          /\ i < j /\ IsRequest(i) /\ ~Wanted(netLog[i].msg)
          /\ IsResponse(j) /\ netLog[j].msg.requestId = netLog[i].msg.requestId

\* A request identifier has a record in the returned list.
InResult(id) ==
    \E k \in 1..Len(netOutcome.value), i \in 1..Len(netLog) :
        /\ IsRequest(i) /\ netLog[i].msg.requestId = id
        /\ netLog[i].ref = netOutcome.value[k]

\* One XHR and one fetch request, each announced and then answered, all
\* within the window.
OneXhrOneFetch ==
    /\ Len(netLog) = 4
    /\ \A i \in 1..4 : netLog[i].phase = "window"
    /\ \E a, b \in RequestIds :
          /\ a # b
          /\ \E i, j \in 1..4 :
                /\ i < j
                /\ IsRequest(i) /\ netLog[i].msg.requestId = a /\ netLog[i].msg.type = Xhr
                /\ IsResponse(j) /\ netLog[j].msg.requestId = a
          /\ \E i, j \in 1..4 :
                /\ i < j
                /\ IsRequest(i) /\ netLog[i].msg.requestId = b /\ netLog[i].msg.type = Fetch
                /\ IsResponse(j) /\ netLog[j].msg.requestId = b

\* C7: a request that passes the filters and whose requestWillBeSent and
\* responseReceived are both delivered within the window is in the result;
\* with filters.types = [fetch], one XHR and one fetch request yield exactly
\* one record, typed fetch.
C7_CompletedAppear ==
    netOutcome.kind = "returned" =>
        /\ \A id \in RequestIds :
              (\E i, j \in 1..Len(netLog) :
                  /\ i < j
                  /\ IsRequest(i) /\ netLog[i].msg.requestId = id /\ Wanted(netLog[i].msg)
                  /\ netLog[i].phase = "window"
                  /\ IsResponse(j) /\ netLog[j].msg.requestId = id
                  /\ netLog[j].phase = "window")
              => InResult(id)
        /\ (netFilters = Filters(Types({"fetch"}), <<>>) /\ OneXhrOneFetch) =>
              /\ Len(netOutcome.value) = 1
              /\ heap[netOutcome.value[1]].type = "fetch"

\* The scenario itself: types = [fetch], one XHR and one fetch in the window.
C7_Witness ==
    /\ netOutcome.kind = "returned"
    /\ netFilters = Filters(Types({"fetch"}), <<>>)
    /\ OneXhrOneFetch

\* The wait the tool's parameters ask for.
RequestedWait == IF netDuration.given THEN netDuration.value ELSE 10

\* C8: the wait resolves when exactly the configured duration has elapsed,
\* whatever notifications arrived: not earlier, and the call does not go on
\* waiting once the duration has elapsed.
C8_FixedWait ==
    /\ netPc \in {"closing", "returned"} => netElapsed = RequestedWait
    /\ netPc = "waiting" => netElapsed <= RequestedWait

\* A 60-second capture whose only request was answered returned after 60 s.
C8_Witness ==
    /\ netPc = "returned"
    /\ netDuration = Duration(60)
    /\ netElapsed = 60
    /\ Len(netOutcome.value) = 1

Clamp(n) == IF n < 1 THEN 1 ELSE IF n > 60 THEN 60 ELSE n

\* C9 as stated: every supplied duration is clamped into 1..60 (10 when
\* absent): the call is carried out and waits for the clamped value.
C9_ClampedWait ==
    netPc # "idle" =>
        /\ netPc # "rejected"
        /\ netPc \in {"waiting", "closing", "returned"} =>
              netWait = (IF netDuration.given THEN Clamp(netDuration.value) ELSE 10)

\* C9 as amended: a supplied duration outside 1..60 is rejected by the
\* tool's schema before any session is opened (it is not clamped); for an
\* accepted call the wait is the supplied duration, or 10 seconds when none
\* is supplied, and so lies within 1..60.
C9_ValidatedWait ==
    /\ netPc \in {"waiting", "closing", "returned"} =>
          /\ netWait = RequestedWait
          /\ netWait >= 1 /\ netWait <= 60
    /\ (netDuration.given /\ (netDuration.value < 1 \/ netDuration.value > 60)) =>
          /\ netPc = "rejected"
          /\ netClient = "undefined"

\* No duration supplied: the call returned after the default 10 seconds.
C9_Witness ==
    /\ netPc = "returned"
    /\ ~netDuration.given
    /\ netWait = 10 /\ netElapsed = 10

(***************************************************************************)
(* Properties of the attribute extraction (SpecDom).                       *)
(***************************************************************************)
IsAriaName(name) ==
    /\ Len(name) >= 5
    /\ name[1] = "a" /\ name[2] = "r" /\ name[3] = "i" /\ name[4] = "a" /\ name[5] = "-"

\* C10: in every snapshot ariaAttributes is the restriction of attributes to
\* the names that start with 'aria-', repeated names included.
C10_AriaRestriction ==
    snapshot.kind = "snapshot" =>
        /\ DOMAIN snapshot.ariaAttributes =
              {name \in DOMAIN snapshot.attributes : IsAriaName(name)}
        /\ \A name \in DOMAIN snapshot.ariaAttributes :
              snapshot.ariaAttributes[name] = snapshot.attributes[name]
        /\ nodeAttributes.given =>
              \A i \in 1..Len(nodeAttributes.list) :
                  i % 2 = 1 => nodeAttributes.list[i] \in DOMAIN snapshot.attributes

\* A node that repeats an 'aria-' name with two different values and also
\* carries an attribute named 'aria' (no dash).
C10_Witness ==
    /\ snapshot.kind = "snapshot"
    /\ nodeAttributes.given
    /\ Len(nodeAttributes.list) = 6
    /\ \E i, j \in {1, 3, 5} :
          /\ i < j
          /\ nodeAttributes.list[i] = nodeAttributes.list[j]
          /\ IsAriaName(nodeAttributes.list[i])
          /\ nodeAttributes.list[i + 1] # nodeAttributes.list[j + 1]
    /\ <<"a", "r", "i", "a">> \in DOMAIN snapshot.attributes

(***************************************************************************)
(* Properties of queryDOMElements (SpecQuery).                             *)
(***************************************************************************)
\* C11: queryDOMElements returns one snapshot per matched node, in match
\* order, and the isVisible flag of each snapshot is the visibility of the
\* snapshot's own node.
C11_OwnVisibility ==
    qOutcome.kind = "returned" =>
        /\ Len(qOutcome.elements) = Len(qPage)
        /\ \A i \in 1..Len(qPage) :
              /\ qOutcome.elements[i].nodeId = i
              /\ qOutcome.elements[i].isVisible = (IF qPage[i].visible THEN "true" ELSE "false")

\* The failed commands other than a node's DOM.getBoxModel.
NonBoxFailures == {f \in qFailed : f[1] # "DOM.getBoxModel"}

\* C12: a failed queryDOMElements throws an error that names the selector
\* and carries the :contains() warning, whatever step failed; the query
\* fails exactly when a command other than a node's DOM.getBoxModel failed,
\* and a failed DOM.getBoxModel yields a null boundingBox.
C12_ErrorNamesSelector ==
    qPc = "done" =>
        /\ (qOutcome.kind = "threw" <=> NonBoxFailures # {})
        /\ (qOutcome.kind = "threw" =>
               /\ Len(qOutcome.message) = 5
               /\ qOutcome.message[2] = qSelector
               /\ qOutcome.message[5] = QueryHint)
        /\ (qOutcome.kind = "returned" =>
               \A i \in 1..Len(qNodeIds) :
                   (<<"DOM.getBoxModel", i>> \in qFailed)
                       <=> (qOutcome.elements[i].boundingBox = "null"))

C12_Witness ==
    /\ qPc = "done" /\ qOutcome.kind = "threw"
    /\ <<"DOM.getBoxModel", 1>> \in qFailed
    /\ <<"Runtime.evaluate", 2>> \in qFailed
    /\ qOutcome.message = QueryError(Quoted, "Runtime.evaluate")

(***************************************************************************)
(* Properties of clickElement (SpecClick, SpecClickLive).                  *)
(***************************************************************************)
\* C13: when the selector matches no node, clickElement throws 'No element
\* found matching selector', no click is dispatched and the session is closed.
C13_NoMatchNoClick ==
    (cPc = "done" /\ cNodeIds.given /\ Len(cNodeIds.ids) = 0) =>
        /\ cOutcome = [kind |-> "threw", message |-> NoElementFound(cPage.selector)]
        /\ cClicks = <<>>
        /\ cClient = "closed"

C13_Witness ==
    /\ cPc = "done" /\ cNodeIds.given /\ Len(cNodeIds.ids) = 0
    /\ cPage.selector = Plain /\ cHeard # <<>>

\* C14: a successful clickElement has dispatched exactly one click event, on
\* the first matching element, at the center of its box.
C14_OneClick ==
    cOutcome.kind = "returned" =>
        cClicks = <<[element |-> 1, x |-> Center(cPage.box).x, y |-> Center(cPage.box).y]>>

IsListened(h) == h.listened

\* The messages the call's console listener was called with, in order.
Listened ==
    LET heard == SelectSeq(cHeard, IsListened)
    IN  [i \in 1..Len(heard) |-> heard[i].message]

C15_RaceSafety ==
    cOutcome.kind = "returned" =>
        /\ cRace \in {"console", "timer"}
        /\ (cRace = "console" => Listened # <<>>)
        /\ (cRace = "timer" => cTimer = "fired")
        /\ cOutcome.consoleOutput = Listened

\* C15: clickElement returns only once a console message has reached its
\* listener or the one-second timer has fired, its consoleOutput is the
\* messages the listener received, and a call that waits on the race always
\* ends.
C15_ReturnsOnRace ==
    /\ []C15_RaceSafety
    /\ (cPc = "Promise.race") ~> (cPc = "done")

C15_Witness ==
    /\ cOutcome.kind = "returned" /\ cOutcome.consoleOutput = <<>>
    /\ cRace = "timer" /\ Len(cHeard) = 1

(***************************************************************************)
(* Properties of loadUrl and of the console-log buffer (SpecNav).          *)
(***************************************************************************)
\* C16: loadUrl returns successfully only after a load event has been
\* received on its session after the navigate command.
C16_LoadAfterNavigate ==
    \A c \in NavCalls :
        (nOp[c] = "loadUrl" /\ nOutcome[c].kind \in {"returning", "returned"}) =>
            \E i, j \in 1..Len(nLog[c]) :
                /\ i < j
                /\ nLog[c][i] = "Page.navigate"
                /\ nLog[c][j] = "loadEventFired"

C16_Witness ==
    \E c \in NavCalls :
        /\ nOp[c] = "loadUrl" /\ nOutcome[c].kind = "returned"
        /\ nLog[c] = <<"loadEventFired", "Page.navigate", "loadEventFired">>

\* C17: the console listener of a loadUrl call that has returned still hears
\* the messages its tab writes afterwards.
C17_ListenerOutlives ==
    \A i \in 1..Len(produced) : produced[i].returned \subseteq produced[i].hearing

\* `after` is `before` with one or more copies of the newest console message
\* appended.
IsAppendOf(before, after, messages) ==
    /\ Len(after) > Len(before)
    /\ SubSeq(after, 1, Len(before)) = before
    /\ messages # <<>>
    /\ \A i \in (Len(before) + 1)..Len(after) : after[i] = messages[Len(messages)].entry

\* C18: the buffer of a tab changes only by the reset of a loadUrl call on
\* that tab that starts listening, and by appends of the listener of such a
\* call while its session is open.
C18_OnlyLoadUrlWrites ==
    [][\A t \in Tabs :
          consoleLogs'[t] # consoleLogs[t] =>
              \E c \in NavCalls :
                  /\ nOp[c] = "loadUrl" /\ nTab[c] = t /\ nClient[c] = "open"
                  /\ \/ consoleLogs'[t] = <<>> /\ ~nListening[c] /\ nListening'[c]
                     \/ nListening[c] /\ IsAppendOf(consoleLogs[t], consoleLogs'[t], produced')]_vars

C18_Witness ==
    \E t \in Tabs, c \in NavCalls :
        /\ consoleLogs[t] # <<>>
        /\ nOp[c] = "executeScript" /\ nTab[c] = t /\ nMessages[c] # <<>>

(***************************************************************************)
(* Properties of the tool front end (SpecTools).                           *)
(***************************************************************************)
\* C19: when the evaluation of the script fails, an exception raised by the
\* script included, executeScript throws and execute_script answers with an
\* error-flagged response.
C19_FailedEvaluationFails ==
    (toolPc = "responded" /\ tool = "execute_script"
        /\ exeReply \in {"rejected", "exceptionDetails"}) =>
        /\ adapterOutcome.kind = "threw"
        /\ response.isError

\* The failure the handler caught.
Caught == IF adapterOutcome.kind = "threw" THEN adapterOutcome ELSE postOutcome

\* C20: a tool answers with an error-flagged response carrying the failure
\* message exactly when the adapter operation or the post-processing threw.
C20_ErrorFlag ==
    toolPc = "responded" =>
        /\ response.isError <=> (Caught.kind = "threw")
        /\ (Caught.kind = "threw" => Tail(response.text) = Caught.message)
        /\ response.text # <<>>

C20_Witness ==
    /\ toolPc = "responded" /\ tool = "capture_screenshot"
    /\ adapterOutcome.kind = "returned" /\ postOutcome.kind = "threw"
    /\ response = [isError |-> TRUE,
                   text |-> <<"Error processing screenshot: ",
                              "Failed to process image: ", TooLarge>>]


(***************************************************************************)
(* C21.  Each invocation makes at most one attempt: it opens at most one   *)
(* session, and once a transport or protocol call has failed it neither    *)
(* opens a session again nor issues the failed command again.              *)
(***************************************************************************)
Attempts(c, step) == {i \in 1..Len(log[c]) : log[c][i][1] = step}

C21_SingleAttempt ==
    \A c \in Calls :
        /\ Cardinality(Attempts(c, "CDP")) <= 1
        /\ \A i, j \in 1..Len(log[c]) :
              (i < j /\ log[c][i][2] = "fail")
                  => log[c][j][1] \notin {"CDP", log[c][i][1]}

\* A call whose protocol command failed has run its cleanup and is over.
C21_Witness ==
    \E c \in Calls :
        /\ pc[c] = "done"
        /\ \E i \in 1..Len(log[c]) :
              /\ log[c][i][2] = "fail"
              /\ log[c][i][1] # "CDP"
              /\ i < Len(log[c])

(***************************************************************************)
(* C22.  The tab listing and every session are opened against the          *)
(* endpoint the base URL names: the host of every connection is the host   *)
(* of the URL, its port is the port of the URL, and 9222 only when the URL *)
(* carries no port.                                                        *)
(***************************************************************************)
\* The first position at or after i where the string has ch, else its end + 1.
RECURSIVE IndexFrom(_, _, _)
IndexFrom(str, ch, i) ==
    IF i > Len(str) \/ str[i] = ch THEN i ELSE IndexFrom(str, ch, i + 1)

\* The authority of an http URL: what stands between "http://" and the path.
UrlAuthority(url) ==
    SubSeq(url, Len(Scheme) + 1, IndexFrom(url, "/", Len(Scheme) + 1) - 1)

UrlHasPort(url) == IndexFrom(UrlAuthority(url), ":", 1) <= Len(UrlAuthority(url))

UrlHost(url) == SubSeq(UrlAuthority(url), 1, IndexFrom(UrlAuthority(url), ":", 1) - 1)

UrlPort(url) ==
    ParseInt(SubSeq(UrlAuthority(url), IndexFrom(UrlAuthority(url), ":", 1) + 1,
                    Len(UrlAuthority(url))))

C22_EndpointOfBaseUrl ==
    \A k \in connections :
        /\ k.endpoint.host = UrlHost(baseUrl)
        /\ k.endpoint.port = IF UrlHasPort(baseUrl) THEN UrlPort(baseUrl)
                                                    ELSE DefaultPort

(***************************************************************************)
(* C23.  listTabs is idempotent and free of side effects: two listings     *)
(* with no change of the browser in between return the same identifiers,   *)
(* and a step of listTabs changes neither the browser's tab set nor the    *)
(* adapter's state.                                                        *)
(***************************************************************************)
SameListing ==
    \A i, j \in 1..Len(listings) :
        (/\ listings[i].kind = "returned"
         /\ listings[j].kind = "returned"
         /\ listings[i].epoch = listings[j].epoch)
            => listings[i].ids = listings[j].ids

C23_ListIdempotent ==
    /\ []SameListing
    /\ [][(listPc' # listPc \/ listings' # listings)
             => /\ targets' = targets
                /\ baseUrl' = baseUrl
                /\ consoleLogs' = consoleLogs]_vars

\* Two listings of a browser with tabs that did not change in between.
C23_Witness ==
    /\ Len(listings) = 2
    /\ listings[1].kind = "returned"
    /\ listings[2].kind = "returned"
    /\ listings[1].epoch = listings[2].epoch
    /\ listings[1].ids # {}
    /\ epoch > 0

(***************************************************************************)
(* C29.  Two capture_screenshot invocations that both succeed return       *)
(* distinct file paths, and each one's file still holds its own image,     *)
(* also when both save within one millisecond.                             *)
(***************************************************************************)
C29_DistinctPaths ==
    \A c, d \in SaveCalls :
        (c # d /\ sPc[c] = "returned" /\ sPc[d] = "returned")
            => /\ sPath[c] # sPath[d]
               /\ [path |-> sPath[c], data |-> c] \in files

(***************************************************************************)
(* C24.  A recorded request has one of exactly two kinds: xhr when the     *)
(* protocol reports the resource type XHR in any letter case, fetch in     *)
(* every other case, a missing type included; the type filter is applied   *)
(* to that kind.                                                           *)
(***************************************************************************)
IsXhrType(rawType) ==
    /\ Len(rawType) = 3
    /\ rawType[1] \in {"x", "X"}
    /\ rawType[2] \in {"h", "H"}
    /\ rawType[3] \in {"r", "R"}

KindByContract(msg) == IF IsXhrType(msg.type) THEN "xhr" ELSE "fetch"

C24_TwoKinds ==
    /\ \A ref \in 1..Len(heap) : heap[ref].type \in {"xhr", "fetch"}
    /\ \A i \in 1..Len(netLog) :
          IsRequest(i) =>
              /\ netLog[i].ref # 0 =>
                    heap[netLog[i].ref].type = KindByContract(netLog[i].msg)
              /\ (netFilters.given /\ netFilters.types.given) =>
                    /\ KindByContract(netLog[i].msg) \notin netFilters.types.set
                          => netLog[i].ref = 0
                    /\ (/\ KindByContract(netLog[i].msg) \in netFilters.types.set
                        /\ netFilters.urlPattern = <<>>)
                          => netLog[i].ref # 0

\* A call filtered to fetch returned the record of a request that was
\* announced without a resource type.
C24_Witness ==
    /\ netOutcome.kind = "returned"
    /\ netFilters.given /\ netFilters.types.given
    /\ netFilters.types.set = {"fetch"}
    /\ Len(netOutcome.value) = 1
    /\ \E i \in 1..Len(netLog) :
          /\ IsRequest(i)
          /\ netLog[i].msg.type = <<>>
          /\ netLog[i].ref = netOutcome.value[1]

(***************************************************************************)
(* C25.  The list a call hands back holds exactly the records completed    *)
(* before its wait resolved: a responseReceived delivered after that, while *)
(* the session is being closed, adds nothing to it.                        *)
(***************************************************************************)
CompletedInWindow(ref) ==
    \E j \in 1..Len(netLog) :
        IsResponse(j) /\ netLog[j].ref = ref /\ netLog[j].phase = "window"

C25_WindowOnly ==
    netOutcome.kind = "returned" =>
        /\ \A k \in 1..Len(netOutcome.value) : CompletedInWindow(netOutcome.value[k])
        /\ Len(netOutcome.value) =
              Cardinality({j \in 1..Len(netLog) :
                              /\ IsResponse(j)
                              /\ netLog[j].ref # 0
                              /\ netLog[j].phase = "window"})

(***************************************************************************)
(* C27.  Whatever the sequence of notifications, repeated ones for one     *)
(* request identifier included, the result holds at most one record per    *)
(* request identifier and no record twice.                                 *)
(***************************************************************************)
\* The request identifier a record was created for.
IdOf(ref) ==
    (CHOOSE i \in 1..Len(netLog) : IsRequest(i) /\ netLog[i].ref = ref).msg.requestId

C27_OneRecordPerId ==
    netOutcome.kind = "returned" =>
        \A k, l \in 1..Len(netOutcome.value) :
            k # l => /\ netOutcome.value[k] # netOutcome.value[l]
                     /\ IdOf(netOutcome.value[k]) # IdOf(netOutcome.value[l])

(***************************************************************************)
(* C26.  No command is issued on a session once its close has been         *)
(* initiated: in queryDOMElements every per-node function has finished     *)
(* before the finally block closes the session, also when one node's       *)
(* lookup fails while others are in flight.  (qPc = "finally" is the state *)
(* in which client.close() has been called and not yet resolved; a         *)
(* per-node function that moves on to DOM.getBoxModel or Runtime.evaluate  *)
(* issues that command.)                                                   *)
(***************************************************************************)
NodesFinished == \A i \in 1..Len(qNodeIds) : qNodePc[i] \in {"done", "rejected"}

IssuesNodeCommand ==
    \E i \in 1..Len(qNodeIds) :
        /\ qNodePc'[i] # qNodePc[i]
        /\ qNodePc'[i] \in {"DOM.getBoxModel", "Runtime.evaluate"}

C26_NoCommandAfterClose ==
    /\ []((qPc \in {"finally", "done"} /\ qClient # "undefined") => NodesFinished)
    /\ [][(qPc \in {"finally", "done"}) => (~IssuesNodeCommand)]_vars

(***************************************************************************)
(* C28.  When full-page captures overlap on the tab, each call's capture   *)
(* command runs while the device-metrics override that call set is in      *)
(* effect: no other call's cleanup clears it between the call's            *)
(* set-override and its capture.                                           *)
(***************************************************************************)
Capturing(c) ==
    /\ op[c] = "captureScreenshot" /\ fullPage[c]
    /\ pc[c] = "try"
    /\ CurStep(c) = "Page.captureScreenshot"

C28_OverrideHeldForCapture == \A c \in Calls : Capturing(c) => override

(***************************************************************************)
(* C30.  When Page.navigate succeeds and the load event is delivered on    *)
(* the session at any time after the command was issued, before its reply  *)
(* is processed included, loadUrl eventually returns with its session      *)
(* closed.  (LoadEventFired only delivers on a session whose navigate has  *)
(* been issued, so every logged load event is such a delivery.)            *)
(***************************************************************************)
Logged(c, what) == \E i \in 1..Len(nLog[c]) : nLog[c][i] = what

C30_LoadReturns ==
    \A c \in NavCalls :
        (nOp[c] = "loadUrl" /\ Logged(c, "Page.navigate") /\ Logged(c, "loadEventFired"))
            ~> (nPc[c] = Done /\ nOutcome[c].kind = "returned" /\ nClient[c] = "closed")

====
